---- MODULE Spec2Model ----
(***************************************************************************)
(* ChatLab: streaming parsers, the streaming importer of the database      *)
(* worker, and the worker's analytics queries.                             *)
(*                                                                         *)
(*   SpecParse  - one parser (parseChatLab / parseV4) run on its own       *)
(*   Spec       - the worker serving one streamImport request, with        *)
(*                getAllSessions requests served whenever the worker's     *)
(*                thread is free                                           *)
(*   SpecQuery and the specifications after it - analytics requests on a   *)
(*                store that nothing modifies                              *)
(*   SpecWorker - the worker's message handler: requests in, progress and  *)
(*                response messages out                                    *)
(***************************************************************************)
EXTENDS Integers, Sequences, FiniteSets, TLC

VARIABLES
  file,               \* the export file of the current parse
  batchSize,          \* ParseOptions.batchSize of the current parse
  ppc,                \* position of the parser generator
  pidx,               \* raw records the JSON pipeline has delivered so far
  batchCollector,     \* parser: batchCollector
  messageBatch,       \* parser: messageBatch
  memberMap,          \* parser: memberMap / memberMapFromMessages (insertion order)
  messagesProcessed,  \* parser: messagesProcessed
  yi,                 \* parser: index i of the batch-yield loop
  ev,                 \* the event the generator has yielded and the consumer has not handled
  trace,              \* the events yielded and the onProgress calls so far, in order
  pc,                 \* position of streamImport
  db,                 \* the session's store file and streamImport's connection to it
  imp,                \* streamImport's local variables
  tempFile,           \* the preprocessor's temp file: "none", "exists", "cleaned"
  result,             \* what streamImport returned: "none", "success", "failure"
  failed,             \* the steps of streamImport that threw, swallowed or not
  served,             \* the getAllSessions requests served: when, and whether the session was listed
  doneCounts,         \* the counts of the parser's done event
  qstore,             \* the session store the analytics queries read
  dbCache,            \* dbCache holds a connection to the session's store
  now,                \* the system clock, in seconds
  calls,              \* two analytics calls with the same arguments: clock and result
  pending,            \* message handler: per request id, "none", "awaiting" (an async handler), "done"
  posted,             \* the messages given to parentPort.postMessage, in order
  tz,                 \* the offset of the worker's local time zone from UTC, in hours
  sessionFiles,       \* per session id, the store file in the database directory
  connections,        \* the Database objects dbCore has constructed, oldest first
  connCache,          \* dbCore's dbCache: the entries of the Map, in insertion order
  lastCall,           \* the last call of dbCore: arguments, the cache before it, result
  inbox,              \* the requests posted to the worker and not yet handled, oldest first
  deletePc,           \* the chat:deleteSession handler: its session id and position
  answer,             \* the worker's answer to the last analytics request
  agent,              \* Agent.executeStream: config, toolRounds, position, LLM requests made
  tempDbCache,        \* main process: tempDbCache, per source file its temp database, 0 for none
  tempDbFiles,        \* the temp databases that exist in the temp directory
  tempDbCount,        \* the temp database paths generated so far
  mergeReply          \* what the last merge handler answered: handler, file paths, outcome

pvars == <<file, batchSize, ppc, pidx, batchCollector, messageBatch, memberMap,
           messagesProcessed, yi, ev, trace>>
ivars == <<pc, db, imp, tempFile, result, failed, served, doneCounts>>
qvars == <<qstore, dbCache, now, calls>>
wvars == <<pending, posted>>
cvars == <<sessionFiles, connections, connCache, lastCall>>
dvars == <<inbox, deletePc, answer>>
avars == <<agent>>
xvars == <<tz, sessionFiles, connections, connCache, lastCall, inbox, deletePc,
           answer, agent, tempDbCache, tempDbFiles, tempDbCount, mergeReply>>
mvars == <<tempDbCache, tempDbFiles, tempDbCount, mergeReply>>
vars == <<file, batchSize, ppc, pidx, batchCollector, messageBatch, memberMap,
          messagesProcessed, yi, ev, trace,
          pc, db, imp, tempFile, result, failed, served, doneCounts,
          qstore, dbCache, now, calls, pending, posted, tz,
          sessionFiles, connections, connCache, lastCall, inbox, deletePc, answer,
          agent, tempDbCache, tempDbFiles, tempDbCount, mergeReply>>

-----------------------------------------------------------------------------
(* Bounds of the model *)

\* longest export file, in message records
MaxMsgs == 2
\* largest ParseOptions.batchSize tried by SpecParse
MaxBatch == 2
\* most requests the worker receives in SpecWorker, and most progress
\* messages a handler sends for one request
MaxRequests == 2
MaxProgress == 2
\* streamImport's batchSize (5000), BATCH_COMMIT_SIZE (50000) and
\* CHECKPOINT_INTERVAL (200000), scaled down to the files of the model
ImportBatchSize == 1
BATCH_COMMIT_SIZE == 2
CHECKPOINT_INTERVAL == 2

-----------------------------------------------------------------------------
(* Values *)

\* an absent / null value is the empty sequence, a present one a 1-tuple
None == <<>>
Some(x) == <<x>>

Pids == {"u1", "u2"}
Timestamps == {1, 2}

\* A message record of an export file. sender: ChatLabMessage.sender or
\* V4Message.sender.uin; name: ChatLabMessage.name or rawMessage.sendMemberName;
\* nick: rawMessage.sendNickName; sname: V4Message.sender.name; ts: the
\* timestamp, None when missing or unparsable. "" is an empty or missing string.
\* The well-formed records, and one record for each way of being incomplete.
Rec(s, n, k, t) == [sender |-> s, name |-> n, nick |-> k, sname |-> "", ts |-> t]
ChatLabRecords ==
  {Rec(s, n, "", Some(t)) : s \in Pids, n \in {"n1", "n2"}, t \in Timestamps}
  \cup {Rec("", "n1", "", Some(1)), Rec("u1", "", "", Some(1)),
        Rec("u1", "n1", "", None)}
V4Records ==
  {Rec(s, n, k, Some(t)) :
     s \in Pids, n \in {"n2", ""}, k \in {"n1", ""}, t \in Timestamps}
  \cup {Rec("", "n2", "n1", Some(1)), Rec("u1", "n2", "n1", None)}

SeqsUpTo(S, n) == UNION {[1..k -> S] : k \in 0..n}

\* the "members" array found in the head of a ChatLab file (empty: not found)
ChatLabHeads == {<<>>, <<[platformId |-> "u1", name |-> "n1", nickname |-> ""]>>}

\* fmt: the format detectFormat finds ("none": no match); big: the format has
\* a preprocessor and the file needs it
Files(n) ==
  [fmt : {"chatlab"}, recs : SeqsUpTo(ChatLabRecords, n), head : ChatLabHeads,
   big : {FALSE}]
  \cup
  [fmt : {"v4"}, recs : SeqsUpTo(V4Records, n), head : {<<>>}, big : BOOLEAN]

\* files of three messages of one sender, who may switch between two names
\* and back
SwitchFiles ==
  [fmt : {"chatlab"},
   recs : {<<Rec("u1", a, "", Some(1)), Rec("u1", b, "", Some(2)),
             Rec("u1", c, "", Some(3))>> : a \in {"n1", "n2"}, b \in {"n1", "n2"}, c \in {"n1", "n2"}},
   head : {<<>>}, big : {FALSE}]

\* files whose sender has the platformId "0", with and without a declared
\* member, and with the platformId itself as a name
ZeroIdFiles ==
  [fmt : {"chatlab"},
   recs : SeqsUpTo({Rec("0", n, "", Some(1)) : n \in {"0", "n1", "n2"}}, 2),
   head : {<<>>, <<[platformId |-> "0", name |-> "n1", nickname |-> ""]>>},
   big : {FALSE}]

NoFile == [fmt |-> "none", recs |-> <<>>, head |-> <<>>, big |-> FALSE]
\* a file no format's signature matches
UnknownFile == [fmt |-> "unknown", recs |-> <<>>, head |-> <<>>, big |-> FALSE]

NoEv == [type |-> "none", members |-> <<>>, messages |-> <<>>,
         messageCount |-> 0, memberCount |-> 0,
         bytesRead |-> 0, messagesProcessed |-> 0]
Event(t) == [NoEv EXCEPT !.type = t]

\* createProgress(stage, bytesRead, totalBytes, messagesProcessed, message) as
\* the data of a progress event (t = "progress") or the argument of an
\* onProgress call (t = "onProgress")
Progress(t, bytes, count) ==
  [NoEv EXCEPT !.type = t, !.bytesRead = bytes, !.messagesProcessed = count]

\* a name in which the stream's UTF-8 decoder has put U+FFFD in the place of
\* an invalid byte of the file
ReplacedName == "n<fffd>"

\* getFileSize: the bytes of the file, four for each record
TotalBytes(f) == 4 * Len(f.recs)

\* bytesRead after the chunks of the first n records: Buffer.byteLength of the
\* decoded chunks, where U+FFFD takes three bytes in the place of one
BytesRead(f, n) ==
  4 * n + 2 * Cardinality({i \in 1..n : f.recs[i].name = ReplacedName})

-----------------------------------------------------------------------------
(* The parsers: parseChatLab and parseV4 *)

\* Map.set on an insertion-ordered map kept as a sequence of records keyed by
\* platformId: an existing key keeps its place and takes the new value
MapSet(m, rec) ==
  IF \E i \in 1..Len(m) : m[i].platformId = rec.platformId
  THEN [i \in 1..Len(m) |-> IF m[i].platformId = rec.platformId THEN rec ELSE m[i]]
  ELSE Append(m, rec)

Or(a, b) == IF a # "" THEN a ELSE b

\* parseV4.processMessage: the display name and QQ nickname of a record
V4NickName(r) == Or(r.nick, Or(r.sname, r.sender))
V4DisplayName(r) == Or(r.name, V4NickName(r))

\* parseV4.processMessage: None for a record it drops
V4ProcessMessage(r) ==
  IF r.sender = "" \/ r.ts = None THEN None
  ELSE Some([senderPlatformId |-> r.sender, senderName |-> V4DisplayName(r),
             timestamp |-> r.ts])

\* parseV4.processMessage: memberMap is updated before the timestamp is checked
V4MemberMap(m, r) ==
  IF r.sender = "" THEN m
  ELSE MapSet(m, [platformId |-> r.sender, name |-> V4DisplayName(r),
                  nickname |-> V4NickName(r)])

\* parseChatLab pipeline.on('data'): every record becomes a message
ChatLabMessageOf(r) ==
  [senderPlatformId |-> r.sender, senderName |-> r.name, timestamp |-> r.ts]

ChatLabMemberMap(m, r) ==
  IF file.head = <<>>
  THEN MapSet(m, [platformId |-> r.sender, name |-> r.name, nickname |-> ""])
  ELSE m

\* variant: a parser that also waits for I/O between the batches it yields
ParserAwaitsIO_BetweenBatches == ppc \in {"reading", "batches"}

\* the generator is suspended on I/O (await new Promise around the read
\* stream): the only place where the worker's event loop can run other tasks
ParserAwaitsIO == ppc = "reading"

\* the sessions of the database directory
Sessions == {"s1", "s2"}

\* no store file, no connection, nothing cached
CacheIdle ==
  /\ sessionFiles = [s \in Sessions |-> [state |-> "missing", years |-> <<>>]]
  /\ connections = <<>>
  /\ connCache = <<>>
  /\ lastCall = [fn |-> "none"]
  /\ inbox = <<>>
  /\ deletePc = [pc |-> "idle", sessionId |-> ""]
  /\ answer = [sessionId |-> ""]

\* no Agent is executing
AgentIdle ==
  agent = [pc |-> "idle", maxToolRounds |-> 0, toolRounds |-> 0, requests |-> 0,
           stream |-> <<>>]

\* the files offered to the merge
MergeSources == {"a.json", "b.json"}

\* nothing parsed for a merge
MergeIdle ==
  /\ tempDbCache = [f \in MergeSources |-> 0]
  /\ tempDbFiles = {}
  /\ tempDbCount = 0
  /\ mergeReply = [handler |-> "none", filePaths |-> <<>>, ok |-> TRUE]

\* the worker runs in a zone without offset
RestIdle == tz = 0 /\ CacheIdle /\ AgentIdle /\ MergeIdle

\* no request received and nothing posted
WorkerIdle ==
  /\ pending = [id \in 1..MaxRequests |-> "none"]
  /\ posted = <<>>

ParserIdle ==
  /\ ppc = "idle" /\ pidx = 0 /\ batchCollector = <<>> /\ messageBatch = <<>>
  /\ memberMap = <<>> /\ messagesProcessed = 0 /\ yi = 0 /\ ev = NoEv
  /\ trace = <<>>

Yield(e) == /\ ev' = e
            /\ trace' = Append(trace, e)

\* onProgress(p), then yield e
NotifyAndYield(p, e) == /\ ev' = e
                        /\ trace' = trace \o <<p, e>>

\* yield { type: 'progress', data: initialProgress }
ParserStart ==
  /\ ppc = "init" /\ ev = NoEv
  /\ Yield(Progress("progress", 0, 0))
  /\ ppc' = "meta"
  /\ UNCHANGED <<file, batchSize, pidx, batchCollector, messageBatch, memberMap,
                 messagesProcessed, yi>>
  /\ UNCHANGED <<ivars, qvars, wvars, xvars>>

\* variant: a parser that does not yield its meta event
ParserMeta_NoYield ==
  /\ ppc = "meta" /\ ev = NoEv
  /\ ppc' = "head"
  /\ UNCHANGED <<file, batchSize, pidx, batchCollector, messageBatch, memberMap,
                 messagesProcessed, yi, ev, trace>>
  /\ UNCHANGED <<ivars, qvars, wvars, xvars>>

\* onProgress(initialProgress); read the head; yield { type: 'meta' }
ParserMeta ==
  /\ ppc = "meta" /\ ev = NoEv
  /\ NotifyAndYield(Progress("onProgress", 0, 0), Event("meta"))
  /\ ppc' = "head"
  /\ UNCHANGED <<file, batchSize, pidx, batchCollector, messageBatch, memberMap,
                 messagesProcessed, yi>>
  /\ UNCHANGED <<ivars, qvars, wvars, xvars>>

\* the head's members are parsed and the read stream is opened
ParserOpenStream ==
  /\ ppc = "head" /\ ev = NoEv
  /\ ppc' = "reading"
  /\ UNCHANGED <<file, batchSize, pidx, batchCollector, messageBatch, memberMap,
                 messagesProcessed, yi, ev, trace>>
  /\ UNCHANGED <<ivars, qvars, wvars, xvars>>

\* pipeline.on('data')
ParserData ==
  /\ ppc = "reading" /\ pidx < Len(file.recs)
  /\ LET r == file.recs[pidx + 1]
         parsed == IF file.fmt = "v4" THEN V4ProcessMessage(r)
                   ELSE Some(ChatLabMessageOf(r))
         coll == batchCollector \o parsed
         full == parsed # None /\ Len(coll) >= batchSize
     IN /\ pidx' = pidx + 1
        /\ memberMap' = IF file.fmt = "v4" THEN V4MemberMap(memberMap, r)
                        ELSE ChatLabMemberMap(memberMap, r)
        /\ messagesProcessed' = messagesProcessed + Len(parsed)
        /\ batchCollector' = IF full THEN <<>> ELSE coll
        /\ messageBatch' = IF full THEN messageBatch \o coll ELSE messageBatch
        /\ trace' = IF full
                     THEN Append(trace,
                                 Progress("onProgress",
                                          BytesRead(file, pidx + 1),
                                          messagesProcessed + 1))
                     ELSE trace
  /\ UNCHANGED <<file, batchSize, ppc, yi, ev>>
  /\ UNCHANGED <<ivars, qvars, wvars, xvars>>

\* pipeline.on('end'): the rest of the collector is kept and the promise resolves
ParserEnd ==
  /\ ppc = "reading" /\ pidx = Len(file.recs)
  /\ messageBatch' = messageBatch \o batchCollector
  /\ ppc' = "members"
  /\ UNCHANGED <<file, batchSize, pidx, batchCollector, memberMap,
                 messagesProcessed, yi, ev, trace>>
  /\ UNCHANGED <<ivars, qvars, wvars, xvars>>

\* pipeline.on('error', reject): the generator throws
ParserStreamError ==
  /\ ppc = "reading"
  /\ ppc' = "error"
  /\ UNCHANGED <<file, batchSize, pidx, batchCollector, messageBatch, memberMap,
                 messagesProcessed, yi, ev, trace>>
  /\ UNCHANGED <<ivars, qvars, wvars, xvars>>

\* the members the parser reports: the head's when found, else the collected
ParserMembers == IF Len(file.head) > 0 THEN file.head ELSE memberMap

\* yield { type: 'members' }: parseV4 always, parseChatLab when it has any
ParserYieldMembers ==
  /\ ppc = "members" /\ ev = NoEv
  /\ IF file.fmt = "v4" \/ Len(ParserMembers) > 0
     THEN Yield([Event("members") EXCEPT !.members = ParserMembers])
     ELSE UNCHANGED <<ev, trace>>
  /\ ppc' = "batches"
  /\ yi' = 0
  /\ UNCHANGED <<file, batchSize, pidx, batchCollector, messageBatch, memberMap,
                 messagesProcessed>>
  /\ UNCHANGED <<ivars, qvars, wvars, xvars>>

\* variant: a slice that runs to the end of the array
Min_Right(a, b) == b

Min(a, b) == IF a < b THEN a ELSE b

\* for (i = 0; i < messageBatch.length; i += batchSize) yield messages
ParserYieldBatch ==
  /\ ppc = "batches" /\ ev = NoEv /\ yi < Len(messageBatch)
  /\ Yield([Event("messages") EXCEPT
              !.messages = SubSeq(messageBatch, yi + 1,
                                  Min(yi + batchSize, Len(messageBatch)))])
  /\ yi' = yi + batchSize
  /\ UNCHANGED <<file, batchSize, ppc, pidx, batchCollector, messageBatch,
                 memberMap, messagesProcessed>>
  /\ UNCHANGED <<ivars, qvars, wvars, xvars>>

\* yield { type: 'progress', data: doneProgress }
ParserYieldDoneProgress ==
  /\ ppc = "batches" /\ ev = NoEv /\ yi >= Len(messageBatch)
  /\ Yield(Progress("progress", TotalBytes(file), messagesProcessed))
  /\ ppc' = "done"
  /\ UNCHANGED <<file, batchSize, pidx, batchCollector, messageBatch, memberMap,
                 messagesProcessed, yi>>
  /\ UNCHANGED <<ivars, qvars, wvars, xvars>>

\* onProgress(doneProgress); yield { type: 'done' }
ParserYieldDone ==
  /\ ppc = "done" /\ ev = NoEv
  /\ NotifyAndYield(Progress("onProgress", TotalBytes(file), messagesProcessed),
                    [Event("done") EXCEPT !.messageCount = messagesProcessed,
                                          !.memberCount = Len(ParserMembers)])
  /\ ppc' = "return"
  /\ UNCHANGED <<file, batchSize, pidx, batchCollector, messageBatch, memberMap,
                 messagesProcessed, yi>>
  /\ UNCHANGED <<ivars, qvars, wvars, xvars>>

\* the generator returns
ParserReturn ==
  /\ ppc = "return" /\ ev = NoEv
  /\ ppc' = "finished"
  /\ UNCHANGED <<file, batchSize, pidx, batchCollector, messageBatch, memberMap,
                 messagesProcessed, yi, ev, trace>>
  /\ UNCHANGED <<ivars, qvars, wvars, xvars>>

ParserStep ==
  \/ ParserStart \/ ParserMeta \/ ParserOpenStream \/ ParserData \/ ParserEnd
  \/ ParserStreamError \/ ParserYieldMembers \/ ParserYieldBatch
  \/ ParserYieldDoneProgress \/ ParserYieldDone \/ ParserReturn

-----------------------------------------------------------------------------
(* The session store (SQLite, WAL mode) *)

\* tables: the base tables exist; meta: the meta row exists; members,
\* messages, history: the rows of member, message and member_name_history in
\* row-id order (ids are 1, 2, ...: nothing is ever deleted); indexes: the
\* secondary indexes exist
EmptyStore == [tables |-> FALSE, meta |-> FALSE, members |-> <<>>,
               messages |-> <<>>, history |-> <<>>, indexes |-> FALSE]

\* file: the store file exists in the data directory; created: it has
\* existed; open: streamImport holds its connection; disk: the committed
\* content, which every other connection reads; txn: the content as
\* streamImport's connection sees it (disk plus the open transaction)
NoDb == [file |-> FALSE, created |-> FALSE, open |-> FALSE,
         disk |-> EmptyStore, txn |-> EmptyStore]

EmptyMap == [k \in {} |-> ""]
\* variant: a Map.set that stores nothing
MapPut_Forgets(m, k, v) == m

MapPut(m, k, v) == [x \in DOMAIN m \cup {k} |-> IF x = k THEN v ELSE m[x]]
Has(m, k) == k \in DOMAIN m

\* SELECT id FROM member WHERE platform_id = ?  (0: no row)
GetMemberId(store, pid) ==
  IF \E i \in 1..Len(store.members) : store.members[i].platformId = pid
  THEN CHOOSE i \in 1..Len(store.members) : store.members[i].platformId = pid
  ELSE 0

\* INSERT OR IGNORE INTO member: platform_id is UNIQUE
InsertMember(store, pid, name, nickname) ==
  IF GetMemberId(store, pid) # 0 THEN store
  ELSE [store EXCEPT !.members =
          Append(@, [platformId |-> pid, name |-> name, nickname |-> nickname])]

\* variant: an UPDATE that changes no row
UpdateMemberName_NoRow(store, name, pid) == store

\* UPDATE member SET name = ? WHERE platform_id = ?
UpdateMemberName(store, name, pid) ==
  [store EXCEPT !.members =
     [i \in 1..Len(@) |-> IF @[i].platformId = pid
                          THEN [@[i] EXCEPT !.name = name] ELSE @[i]]]

\* streamImport's locals
InitImp == [metaInserted |-> FALSE, memberIdMap |-> EmptyMap,
            memberNicknameMap |-> EmptyMap, nicknameTracker |-> <<>>,
            messageCountInBatch |-> 0, totalMessageCount |-> 0,
            lastCheckpointCount |-> 0, inTransaction |-> FALSE]

-----------------------------------------------------------------------------
(* streamImport: the callbacks. Each takes and returns s = [db, imp] *)

\* variant: a commitAndBeginNew that commits and opens no new transaction
CommitAndBeginNew_NoBegin(s) ==
  [db |-> [s.db EXCEPT !.disk = s.db.txn],
   imp |-> [s.imp EXCEPT !.inTransaction = FALSE]]

\* commitAndBeginNew: COMMIT, a WAL checkpoint when one is due (its failure
\* is ignored, see DoCheckpoint), then beginTransaction
CommitAndBeginNew(s) ==
  LET due == s.imp.totalMessageCount - s.imp.lastCheckpointCount
               >= CHECKPOINT_INTERVAL
      c == IF s.imp.inTransaction
           THEN [db |-> [s.db EXCEPT !.disk = s.db.txn],
                 imp |-> [s.imp EXCEPT
                            !.lastCheckpointCount =
                               IF due THEN s.imp.totalMessageCount ELSE @]]
           ELSE s
  IN [c EXCEPT !.imp.inTransaction = TRUE]

\* onMeta
OnMeta(s) ==
  IF s.imp.metaInserted THEN s
  ELSE [db |-> [s.db EXCEPT !.txn.meta = TRUE],
        imp |-> [s.imp EXCEPT !.metaInserted = TRUE]]

\* onMembers: one member
OnMember(s, m) ==
  LET store == InsertMember(s.db.txn, m.platformId, m.name, m.nickname)
      id == GetMemberId(store, m.platformId)
  IN [db |-> [s.db EXCEPT !.txn = store],
      imp |-> [s.imp EXCEPT
                 !.memberIdMap = IF id # 0 THEN MapPut(@, m.platformId, id) ELSE @,
                 !.memberNicknameMap =
                    IF m.nickname # "" THEN MapPut(@, m.platformId, m.nickname)
                    ELSE @]]

RECURSIVE OnMembers(_, _)
OnMembers(s, members) ==
  IF members = <<>> THEN s
  ELSE OnMembers(OnMember(s, Head(members)), Tail(members))

\* variant: a name counts as real whenever it is not the platformId
IsRealNickname_NotPlatformId(nicknames, pid, senderName) == senderName # pid

\* isRealNickname: not the platformId and not the original nickname
\* (memberNicknameMap.get gives undefined for a member without one)
IsRealNickname(nicknames, pid, senderName) ==
  /\ senderName # pid
  /\ ~(Has(nicknames, pid) /\ nicknames[pid] = senderName)

\* onMessageBatch: the nickname tracking of one inserted message
TrackNickname(tracker, nicknames, msg) ==
  LET pid == msg.senderPlatformId
      senderName == Or(msg.senderName, pid)
      isRealNickname == IsRealNickname(nicknames, pid, senderName)
      ts == msg.timestamp[1]
      known == \E i \in 1..Len(tracker) : tracker[i].platformId = pid
      cur == tracker[CHOOSE i \in 1..Len(tracker) : tracker[i].platformId = pid]
  IN IF ~known
     THEN IF isRealNickname
          THEN Append(tracker,
                 [platformId |-> pid, currentName |-> senderName,
                  lastSeenTs |-> ts,
                  history |-> <<[name |-> senderName, startTs |-> ts]>>])
          ELSE tracker
     ELSE IF cur.currentName # senderName /\ isRealNickname
          THEN MapSet(tracker,
                 [cur EXCEPT !.history =
                               Append(@, [name |-> senderName, startTs |-> ts]),
                             !.currentName = senderName, !.lastSeenTs = ts])
          ELSE MapSet(tracker, [cur EXCEPT !.lastSeenTs = ts])

\* onMessageBatch: the data validation that skips a message
SkipsMessage(msg) ==
  msg.senderPlatformId = "" \/ msg.senderName = "" \/ msg.timestamp = None

\* onMessageBatch: one message
OnMessage(s, msg) ==
  IF SkipsMessage(msg) THEN s
  ELSE
    LET pid == msg.senderPlatformId
        known == Has(s.imp.memberIdMap, pid)
        store1 == IF known THEN s.db.txn
                  ELSE InsertMember(s.db.txn, pid, Or(msg.senderName, pid), "")
        id1 == GetMemberId(store1, pid)
        idMap == IF ~known /\ id1 # 0 THEN MapPut(s.imp.memberIdMap, pid, id1)
                 ELSE s.imp.memberIdMap
    IN IF ~Has(idMap, pid) THEN [s EXCEPT !.db.txn = store1, !.imp.memberIdMap = idMap]
       ELSE
         LET store2 == [store1 EXCEPT !.messages =
                          Append(@, [senderId |-> idMap[pid],
                                     ts |-> msg.timestamp[1]])]
             s2 == [db |-> [s.db EXCEPT !.txn = store2],
                    imp |-> [s.imp EXCEPT
                               !.memberIdMap = idMap,
                               !.messageCountInBatch = @ + 1,
                               !.totalMessageCount = @ + 1,
                               !.nicknameTracker =
                                  TrackNickname(@, s.imp.memberNicknameMap, msg)]]
         IN IF s2.imp.messageCountInBatch >= BATCH_COMMIT_SIZE
            THEN [CommitAndBeginNew(s2) EXCEPT !.imp.messageCountInBatch = 0]
            ELSE s2

RECURSIVE OnMessageBatch(_, _)
OnMessageBatch(s, messages) ==
  IF messages = <<>> THEN s
  ELSE OnMessageBatch(OnMessage(s, Head(messages)), Tail(messages))

-----------------------------------------------------------------------------
(* streamImport: the nickname history written after the last message *)

\* uniqueNames: the first use of every name, in order of first use, without
\* the platformId itself
RECURSIVE UniqueNames(_, _, _)
UniqueNames(history, pid, acc) ==
  IF history = <<>> THEN SelectSeq(acc, LAMBDA h : h.name # pid)
  ELSE LET h == Head(history)
       IN UniqueNames(Tail(history), pid,
            IF \E i \in 1..Len(acc) : acc[i].name = h.name THEN acc
            ELSE Append(acc, h))

\* Array.prototype.sort((a, b) => a.startTs - b.startTs): stable
RECURSIVE InsertByStart(_, _)
InsertByStart(sorted, h) ==
  IF sorted = <<>> THEN <<h>>
  ELSE IF Head(sorted).startTs <= h.startTs
       THEN <<Head(sorted)>> \o InsertByStart(Tail(sorted), h)
       ELSE <<h>> \o sorted

\* variant: a history written in order of the tracker, not of first use
SortByStart_Unsorted(hs) == hs

RECURSIVE SortByStart(_)
SortByStart(hs) ==
  IF hs = <<>> THEN <<>>
  ELSE InsertByStart(SortByStart(SubSeq(hs, 1, Len(hs) - 1)), hs[Len(hs)])

\* the rows of one member: each name ends where the next one starts
HistoryRows(senderId, sortedHistory) ==
  [i \in 1..Len(sortedHistory) |->
     [memberId |-> senderId, name |-> sortedHistory[i].name,
      startTs |-> sortedHistory[i].startTs,
      endTs |-> IF i < Len(sortedHistory)
                THEN Some(sortedHistory[i + 1].startTs) ELSE None]]

\* one entry of nicknameTracker
WriteMemberHistory(store, idMap, t) ==
  LET pid == t.platformId
      uniqueNames == UniqueNames(t.history, pid, <<>>)
  IN IF pid \in {"", "0", "undefined"} \/ ~Has(idMap, pid) THEN store
     ELSE IF Len(uniqueNames) <= 1
          THEN UpdateMemberName(store, t.currentName, pid)
          ELSE UpdateMemberName(
                 [store EXCEPT !.history =
                    @ \o HistoryRows(idMap[pid], SortByStart(uniqueNames))],
                 t.currentName, pid)

RECURSIVE WriteNameHistory(_, _, _)
WriteNameHistory(store, idMap, tracker) ==
  IF tracker = <<>> THEN store
  ELSE WriteNameHistory(WriteMemberHistory(store, idMap, Head(tracker)),
                        idMap, Tail(tracker))

-----------------------------------------------------------------------------
(* streamImport: the steps *)

Cur == [db |-> db, imp |-> imp]

\* variant: a catch block that rolls back and leaves the store file in place
Catch_KeepsFile(s) ==
  [s EXCEPT !.db.txn = IF s.imp.inTransaction THEN s.db.disk ELSE @]

\* catch: ROLLBACK when a message transaction is open, then unlink the store
\* file (the connection is still open; the directory entry goes at once)
Catch(s) ==
  [s EXCEPT !.db.txn = IF s.imp.inTransaction THEN s.db.disk ELSE @,
            !.db.file = FALSE]

\* finally: preprocessor.cleanup(tempFilePath) when a temp file was produced
Cleanup(t) == IF t = "exists" THEN "cleaned" ELSE t

\* a step inside the try block throws with the store at s: catch, finally,
\* and the failure result; the parser's generator is never resumed
Fail(step, s) ==
  /\ db' = [Catch(s).db EXCEPT !.open = FALSE]
  /\ imp' = s.imp
  /\ tempFile' = Cleanup(tempFile)
  /\ result' = "failure"
  /\ pc' = "returned"
  /\ failed' = failed \cup {step}
  /\ UNCHANGED <<served, doneCounts>>
  /\ ppc' = IF ppc \in {"idle", "error"} THEN ppc ELSE "abandoned"
  /\ UNCHANGED <<file, batchSize, pidx, batchCollector, messageBatch, memberMap,
                 messagesProcessed, yi, ev, trace>>
  /\ UNCHANGED <<qvars, wvars, xvars>>

\* the worker receives a streamImport request: detectFormat, getPreprocessor,
\* needsPreprocess
ReceiveStreamImport ==
  /\ pc = "idle"
  /\ \E f \in Files(MaxMsgs) \cup SwitchFiles \cup ZeroIdFiles \cup {UnknownFile} :
       /\ file' = f
       /\ IF f.fmt = "unknown"
          THEN /\ pc' = "returned"
               /\ result' = "failure"
               /\ failed' = failed \cup {"detect"}
          ELSE /\ pc' = IF f.big THEN "preprocess" ELSE "create"
               /\ UNCHANGED <<result, failed>>
  /\ UNCHANGED <<batchSize, ppc, pidx, batchCollector, messageBatch, memberMap,
                 messagesProcessed, yi, ev, trace>>
  /\ UNCHANGED <<db, imp, tempFile, served, doneCounts>>
  /\ UNCHANGED <<qvars, wvars, xvars>>

\* await preprocessor.preprocess resolves with the temp file's path
PreprocessOk ==
  /\ pc = "preprocess"
  /\ tempFile' = "exists"
  /\ pc' = "create"
  /\ UNCHANGED <<db, imp, result, failed, served, doneCounts>>
  /\ UNCHANGED <<pvars, qvars, wvars, xvars>>

\* variant: a streamImport that opens the store before it awaits the preprocessor
PreprocessFail_AfterCreate ==
  /\ pc = "preprocess"
  /\ db' = [db EXCEPT !.file = TRUE, !.created = TRUE]
  /\ pc' = "returned"
  /\ result' = "failure"
  /\ failed' = failed \cup {"preprocess"}
  /\ UNCHANGED <<imp, tempFile, served, doneCounts>>
  /\ UNCHANGED <<pvars, qvars, wvars, xvars>>

\* await preprocessor.preprocess rejects: tempFilePath stays null
PreprocessFail ==
  /\ pc = "preprocess"
  /\ pc' = "returned"
  /\ result' = "failure"
  /\ failed' = failed \cup {"preprocess"}
  /\ UNCHANGED <<db, imp, tempFile, served, doneCounts>>
  /\ UNCHANGED <<pvars, qvars, wvars, xvars>>

\* createDatabaseWithoutIndexes, the prepared statements, beginTransaction,
\* and the call of streamParseFile with batchSize 5000
CreateDatabase ==
  /\ pc = "create"
  /\ db' = [file |-> TRUE, created |-> TRUE, open |-> TRUE,
            disk |-> [EmptyStore EXCEPT !.tables = TRUE],
            txn |-> [EmptyStore EXCEPT !.tables = TRUE]]
  /\ imp' = [InitImp EXCEPT !.inTransaction = TRUE]
  /\ pc' = "parse"
  /\ ppc' = "init"
  /\ batchSize' = ImportBatchSize
  /\ UNCHANGED <<file, pidx, batchCollector, messageBatch, memberMap,
                 messagesProcessed, yi, ev, trace>>
  /\ UNCHANGED <<tempFile, result, failed, served, doneCounts>>
  /\ UNCHANGED <<qvars, wvars, xvars>>

\* one of them throws. They run before the try block: no catch, no finally,
\* the promise of streamImport rejects. The store file exists when the
\* exception came after new Database(dbPath) had created it
CreateDatabaseThrows ==
  /\ pc = "create"
  /\ \E made \in BOOLEAN :
       db' = [NoDb EXCEPT !.file = made, !.created = made, !.open = made]
  /\ pc' = "thrown"
  /\ result' = "thrown"
  /\ failed' = failed \cup {"create"}
  /\ UNCHANGED <<imp, tempFile, served, doneCounts>>
  /\ UNCHANGED <<pvars, qvars, wvars, xvars>>

\* streamParseFile hands one event to its callback
Handle(s, e) ==
  CASE e.type = "meta" -> OnMeta(s)
    [] e.type = "members" -> OnMembers(s, e.members)
    [] e.type = "messages" -> OnMessageBatch(s, e.messages)
    [] OTHER -> s

\* doCheckpoint: a failure of the pragma is caught and ignored
DoCheckpoint(label) ==
  \E ok \in BOOLEAN : failed' = IF ok THEN failed ELSE failed \cup {label}

DispatchEvent ==
  /\ pc = "parse" /\ ev # NoEv
  /\ LET s2 == Handle(Cur, ev)
     IN /\ db' = s2.db
        /\ imp' = s2.imp
        /\ IF s2.imp.lastCheckpointCount # imp.lastCheckpointCount
           THEN DoCheckpoint("checkpoint")
           ELSE UNCHANGED failed
  /\ doneCounts' = IF ev.type = "done"
                   THEN Some([messageCount |-> ev.messageCount,
                              memberCount |-> ev.memberCount])
                   ELSE doneCounts
  /\ ev' = NoEv
  /\ UNCHANGED <<file, batchSize, ppc, pidx, batchCollector, messageBatch,
                 memberMap, messagesProcessed, yi, trace>>
  /\ UNCHANGED <<pc, tempFile, result, served>>
  /\ UNCHANGED <<qvars, wvars, xvars>>

\* an INSERT of the callback throws: of the meta row, of the member after k
\* members, of the member or the message of the first message after k
InsertThrows ==
  /\ pc = "parse"
  /\ \/ /\ ev.type = "meta" /\ ~imp.metaInserted
        /\ Fail("insert", Cur)
     \/ /\ ev.type = "members"
        /\ \E k \in 0..(Len(ev.members) - 1) :
             Fail("insert", OnMembers(Cur, SubSeq(ev.members, 1, k)))
     \/ /\ ev.type = "messages"
        /\ \E k \in 0..(Len(ev.messages) - 1) :
             /\ ~SkipsMessage(ev.messages[k + 1])
             /\ Fail("insert", OnMessageBatch(Cur, SubSeq(ev.messages, 1, k)))

\* the COMMIT of commitAndBeginNew throws at the message that fills a batch
\* of BATCH_COMMIT_SIZE (the message itself is in the transaction that the
\* catch rolls back)
BatchCommitThrows ==
  /\ pc = "parse" /\ ev.type = "messages"
  /\ \E k \in 0..(Len(ev.messages) - 1) :
       LET s == OnMessageBatch(Cur, SubSeq(ev.messages, 1, k))
       IN /\ ~SkipsMessage(ev.messages[k + 1])
          /\ s.imp.messageCountInBatch + 1 >= BATCH_COMMIT_SIZE
          /\ Fail("commit", s)

\* the parser's generator throws and streamParseFile rejects
ParserThrows ==
  /\ pc = "parse" /\ ppc = "error"
  /\ Fail("parser", Cur)

\* streamParseFile resolved: the COMMIT of the last message transaction
FinalCommit ==
  /\ pc = "parse" /\ ppc = "finished"
  /\ db' = IF imp.inTransaction THEN [db EXCEPT !.disk = db.txn] ELSE db
  /\ imp' = [imp EXCEPT !.inTransaction = FALSE]
  /\ pc' = "history"
  /\ UNCHANGED <<tempFile, result, failed, served, doneCounts>>
  /\ UNCHANGED <<pvars, qvars, wvars, xvars>>

FinalCommitThrows ==
  /\ pc = "parse" /\ ppc = "finished" /\ imp.inTransaction
  /\ Fail("commit", Cur)

\* BEGIN TRANSACTION; the nickname history of every tracked member; COMMIT
WriteHistory ==
  /\ pc = "history"
  /\ LET store == WriteNameHistory(db.txn, imp.memberIdMap, imp.nicknameTracker)
     IN db' = [db EXCEPT !.txn = store, !.disk = store]
  /\ pc' = "indexes"
  /\ UNCHANGED <<imp, tempFile, result, failed, served, doneCounts>>
  /\ UNCHANGED <<pvars, qvars, wvars, xvars>>

\* BEGIN, an INSERT, an UPDATE or the COMMIT throws: inTransaction is false,
\* so the catch does not roll back before it unlinks
WriteHistoryThrows ==
  /\ pc = "history"
  /\ Fail("history", Cur)

\* variant: a streamImport that calls createIndexes before it writes the
\* nickname history
CreateIndexes_BeforeHistory ==
  /\ pc = "history" /\ ~db.txn.indexes
  /\ db' = [db EXCEPT !.txn.indexes = TRUE, !.disk.indexes = TRUE]
  /\ UNCHANGED <<pc, imp, tempFile, result, failed, served, doneCounts>>
  /\ UNCHANGED <<pvars, qvars, wvars, xvars>>

\* createIndexes
CreateIndexes ==
  /\ pc = "indexes"
  /\ db' = [db EXCEPT !.txn.indexes = TRUE, !.disk.indexes = TRUE]
  /\ pc' = "checkpoint"
  /\ UNCHANGED <<imp, tempFile, result, failed, served, doneCounts>>
  /\ UNCHANGED <<pvars, qvars, wvars, xvars>>

CreateIndexesThrows ==
  /\ pc = "indexes"
  /\ Fail("indexes", Cur)

\* the final doCheckpoint, return { success: true }, and the finally block
FinalCheckpoint ==
  /\ pc = "checkpoint"
  /\ DoCheckpoint("finalCheckpoint")
  /\ db' = [db EXCEPT !.open = FALSE]
  /\ tempFile' = Cleanup(tempFile)
  /\ result' = "success"
  /\ pc' = "returned"
  /\ UNCHANGED <<imp, served, doneCounts>>
  /\ UNCHANGED <<pvars, qvars, wvars, xvars>>

\* parentPort.postMessage throws in a sendProgress of the try block: before
\* the nickname history, before createIndexes, before the final checkpoint,
\* or in commitAndBeginNew after the COMMIT of a full batch (inTransaction is
\* false there, so the catch does not roll back)
SendProgressThrows ==
  \/ /\ pc \in {"history", "indexes", "checkpoint"}
     /\ Fail("send", Cur)
  \/ /\ pc = "parse" /\ ev.type = "messages"
     /\ \E k \in 0..(Len(ev.messages) - 1) :
          LET s == OnMessageBatch(Cur, SubSeq(ev.messages, 1, k))
              s2 == OnMessage(s, ev.messages[k + 1])
          IN /\ ~SkipsMessage(ev.messages[k + 1])
             /\ s.imp.inTransaction
             /\ s.imp.messageCountInBatch + 1 >= BATCH_COMMIT_SIZE
             /\ Fail("send", [s2 EXCEPT !.imp.inTransaction = FALSE])

-----------------------------------------------------------------------------
(* The worker's message handler and getAllSessions *)

\* The worker's thread takes the next request only when no JavaScript is
\* running and no microtask is pending: before and after streamImport, and
\* while streamImport is parked on I/O, in preprocess or in the parser's read
\* of the file. The events of a parser are yielded without I/O in between.
WorkerFree ==
  \/ pc \in {"preprocess", "returned", "thrown"}
  \/ pc = "parse" /\ ParserAwaitsIO /\ ev = NoEv

\* getAllSessions lists a store file that opens and has a committed meta row
GetAllSessionsLists == db.file /\ db.disk.tables /\ db.disk.meta

ServeGetAllSessions ==
  /\ WorkerFree
  /\ served' = served \cup
       {[phase |-> pc, result |-> result, listed |-> GetAllSessionsLists]}
  /\ UNCHANGED <<pc, db, imp, tempFile, result, failed, doneCounts>>
  /\ UNCHANGED <<pvars, qvars, wvars, xvars>>

-----------------------------------------------------------------------------
(* The analytics queries: values *)

\* 86400 (seconds of a day), 1e12 (a timestamp above it is taken for
\* milliseconds) and 1000 (milliseconds of a second), scaled down to the
\* timestamps of the model
SecondsPerDay == 2
MillisThreshold == 5
MillisPerSecond == 4

\* latest reading of the clock
MaxNow == 9
\* most message rows in a queried store
MaxRows == 2

\* timestamps of message rows: two in seconds on different days, one in
\* milliseconds
QTimestamps == {1, 3, 8}

\* the member name that marks system messages, '系统消息'
SystemMessageName == "system-message"

\* the member table of a queried store, by id
QMembers == <<[platformId |-> "u1", name |-> "alice"],
              [platformId |-> "u2", name |-> "bob"],
              [platformId |-> "u3", name |-> SystemMessageName]>>

\* the message rows: any timestamp for the first member, one row each for
\* the second member and the system member
QRows ==
  [senderId : {1}, ts : QTimestamps]
  \cup {[senderId |-> 2, ts |-> 3], [senderId |-> 3, ts |-> 1]}

\* state: the store file is "missing", "corrupt" (it exists and cannot be
\* opened as a database) or "ok"; messages: the message rows in id order;
\* first: the id of the row a SELECT without ORDER BY returns first, which
\* the query plan fixes and SQL does not specify (0 when there is no row)
QStores ==
  {[state |-> "missing", messages |-> <<>>, first |-> 0],
   [state |-> "corrupt", messages |-> <<>>, first |-> 0]}
  \cup
  {st \in [state : {"ok"}, messages : SeqsUpTo(QRows, MaxRows),
            first : 0..MaxRows] :
     IF st.messages = <<>> THEN st.first = 0
     ELSE st.first \in 1..Len(st.messages)}

\* TimeFilter: startTs and endTs, each optional
NoFilter == [startTs |-> None, endTs |-> None]
Filters ==
  {NoFilter,
   [startTs |-> Some(1), endTs |-> Some(3)],
   [startTs |-> Some(0), endTs |-> Some(8)]}

-----------------------------------------------------------------------------
(* The analytics queries: dbCore *)

\* variant: an openDatabase that caches a new connection and does not return it
OpenDatabase_ForgetsConnection ==
  IF dbCache THEN "db"
  ELSE IF qstore.state = "corrupt" THEN "throws"
  ELSE "null"

\* openDatabase: the cached connection; null when the file does not exist;
\* else new Database and the pragma, which throw on a file SQLite cannot open
OpenDatabase ==
  IF dbCache THEN "db"
  ELSE IF qstore.state = "missing" THEN "null"
  ELSE IF qstore.state = "corrupt" THEN "throws"
  ELSE "db"

\* buildTimeFilter: ts >= startTs when given, ts <= endTs when given
InTimeFilter(row, filter) ==
  /\ filter.startTs # None => row.ts >= filter.startTs[1]
  /\ filter.endTs # None => row.ts <= filter.endTs[1]

\* buildSystemMessageFilter: m.name != '系统消息'
NotSystemMessage(row) == QMembers[row.senderId].name # SystemMessageName

\* FROM message msg JOIN member m ... WHERE <time filter> AND <system filter>
FilteredRows(rows, filter) ==
  SelectSeq(rows, LAMBDA r : InTimeFilter(r, filter) /\ NotSystemMessage(r))

\* the ids of the members with a row among rows, ascending (GROUP BY m.id)
RECURSIVE SeqOfSet(_)
SeqOfSet(S) ==
  IF S = {} THEN <<>>
  ELSE LET x == CHOOSE y \in S : \A z \in S : y <= z
       IN <<x>> \o SeqOfSet(S \ {x})

SendersOf(rows) == SeqOfSet({rows[i].senderId : i \in 1..Len(rows)})

\* a stable sort by ascending key
RECURSIVE InsertByKey(_, _)
InsertByKey(sorted, x) ==
  IF sorted = <<>> THEN <<x>>
  ELSE IF x.key < Head(sorted).key THEN <<x>> \o sorted
       ELSE <<Head(sorted)>> \o InsertByKey(Tail(sorted), x)

RECURSIVE SortByKey(_)
SortByKey(xs) ==
  IF xs = <<>> THEN <<>>
  ELSE InsertByKey(SortByKey(SubSeq(xs, 1, Len(xs) - 1)), xs[Len(xs)])

\* the element of a set of one element
The(S) == CHOOSE x \in S : TRUE

\* the values of a sequence of [key, val] in stable order of key
SortedBy(keyed) ==
  LET Vals(sorted) == [i \in 1..Len(sorted) |-> sorted[i].val]
  IN The({Vals(sorted) : sorted \in {SortByKey(The({keyed}))}})

SetMax(S) == CHOOSE x \in S : \A y \in S : y <= x
SetMin(S) == CHOOSE x \in S : \A y \in S : x <= y

\* Math.round(n / d) for n >= 0, d > 0
Round(n, d) == (2 * n + d) \div (2 * d)

-----------------------------------------------------------------------------
(* The analytics queries: the functions, on the message rows of the store *)

\* the rows of rows that member id sent
RowsOf(rows, id) == SelectSeq(rows, LAMBDA r : r.senderId = id)

\* getMemberActivity: percentage is in hundredths of a percent
GetMemberActivity(rows, filter) ==
  LET msgs == FilteredRows(rows, filter)
      totalMessages == Len(msgs)
      ids == SendersOf(msgs)
      grouped == [i \in 1..Len(ids) |->
                    [memberId |-> ids[i],
                     messageCount |-> Len(RowsOf(msgs, ids[i]))]]
      ordered == SortedBy([i \in 1..Len(ids) |->
                             [key |-> 0 - grouped[i].messageCount,
                              val |-> grouped[i]]])
  IN [i \in 1..Len(ordered) |->
        [memberId |-> ordered[i].memberId,
         platformId |-> QMembers[ordered[i].memberId].platformId,
         name |-> QMembers[ordered[i].memberId].name,
         messageCount |-> ordered[i].messageCount,
         percentage |-> IF totalMessages > 0
                        THEN Round(ordered[i].messageCount * 10000, totalMessages)
                        ELSE 0]]

\* getDivingAnalysis: clock is Math.floor(Date.now() / 1000)
GetDivingAnalysis(rows, filter, clock) ==
  LET msgs == FilteredRows(rows, filter)
      ids == SendersOf(msgs)
      LastTs(id) == SetMax({RowsOf(msgs, id)[j].ts :
                              j \in 1..Len(RowsOf(msgs, id))})
      lastMessages ==
        SortedBy([i \in 1..Len(ids) |->
                    [key |-> LastTs(ids[i]),
                     val |-> [memberId |-> ids[i], lastTs |-> LastTs(ids[i])]]])
  IN [rank |->
        [i \in 1..Len(lastMessages) |->
           [memberId |-> lastMessages[i].memberId,
            platformId |-> QMembers[lastMessages[i].memberId].platformId,
            name |-> QMembers[lastMessages[i].memberId].name,
            lastMessageTs |-> lastMessages[i].lastTs,
            daysSinceLastMessage |->
              (clock - lastMessages[i].lastTs) \div SecondsPerDay]]]

\* DATE(tsExpr, 'unixepoch', 'localtime'), as the number of the day
DayOf(ts, tsIsMillis) ==
  (IF tsIsMillis THEN ts \div MillisPerSecond ELSE ts) \div SecondsPerDay

\* the days before d, d included, that form a run of consecutive days of S
StreakEndingAt(S, d) ==
  SetMax({n \in 1..Cardinality(S) : \A k \in 0..(n - 1) : (d - k) \in S})

\* variant: a loop that forgets the streak an interruption ends
StreakBreak_NoUpdate(st, day, prev) ==
  [st EXCEPT !.currentStreakCount = 1, !.currentStreakStart = day]

\* the else branch of the first loop: the streak that ends at prev replaces
\* the maximum when it is longer, and a new streak starts at day
StreakBreak(st, day, prev) ==
  LET upd == IF st.currentStreakCount > st.maxStreak
             THEN [st EXCEPT !.maxStreak = st.currentStreakCount,
                             !.maxStreakStart = st.currentStreakStart,
                             !.maxStreakEnd = prev]
             ELSE st
  IN [upd EXCEPT !.currentStreakCount = 1, !.currentStreakStart = day]

\* the first loop over sortedMemberDays, from index i
RECURSIVE StreakLoop(_, _, _)
StreakLoop(st, days, i) ==
  IF i > Len(days) THEN st
  ELSE IF days[i] - days[i - 1] = 1
       THEN StreakLoop([st EXCEPT !.currentStreakCount = @ + 1], days, i + 1)
       ELSE StreakLoop(StreakBreak(st, days[i], days[i - 1]), days, i + 1)

\* the longest streak of a member: the loop, then the check of the last streak
LongestStreak(days) ==
  LET st == StreakLoop([maxStreak |-> 1, maxStreakStart |-> days[1],
                        maxStreakEnd |-> days[1], currentStreakCount |-> 1,
                        currentStreakStart |-> days[1]], days, 2)
  IN IF st.currentStreakCount > st.maxStreak
     THEN [st EXCEPT !.maxStreak = st.currentStreakCount,
                     !.maxStreakStart = st.currentStreakStart,
                     !.maxStreakEnd = days[Len(days)]]
     ELSE st

\* the loop that counts back from the last day, from index i
RECURSIVE CountBack(_, _, _)
CountBack(days, i, n) ==
  IF i < 1 \/ days[i + 1] - days[i] # 1 THEN n
  ELSE CountBack(days, i - 1, n + 1)

\* finalCurrentStreak
FinalCurrentStreak(days, lastDay) ==
  IF days[Len(days)] = lastDay THEN CountBack(days, Len(days) - 1, 1) ELSE 0

\* getCheckInAnalysis: sampleTs is the ts of SELECT ts FROM message LIMIT 1
GetCheckInAnalysis(rows, filter, sampleTs) ==
  LET tsIsMillis == sampleTs # None /\ sampleTs[1] > MillisThreshold
      msgs == FilteredRows(rows, filter)
      ids == SendersOf(msgs)
      DaysOf(id) == {DayOf(RowsOf(msgs, id)[j].ts, tsIsMillis) :
                       j \in 1..Len(RowsOf(msgs, id))}
      allDays == UNION {DaysOf(ids[i]) : i \in 1..Len(ids)}
      lastDay == SetMax(allDays)
      StreakOf(id, days, st) ==
        [memberId |-> id,
         name |-> QMembers[id].name,
         maxStreak |-> st.maxStreak,
         maxStreakStart |-> st.maxStreakStart,
         maxStreakEnd |-> st.maxStreakEnd,
         currentStreak |-> FinalCurrentStreak(days, lastDay)]
      streakData ==
        [i \in 1..Len(ids) |->
           The({The({StreakOf(ids[i], sortedMemberDays, st) :
                       st \in {LongestStreak(sortedMemberDays)}}) :
                  sortedMemberDays \in {SeqOfSet(DaysOf(ids[i]))}})]
      loyaltyData ==
        [i \in 1..Len(ids) |->
           [memberId |-> ids[i],
            name |-> QMembers[ids[i]].name,
            totalDays |-> Cardinality(DaysOf(ids[i]))]]
      sortedLoyalty == SortedBy([i \in 1..Len(ids) |->
                                   [key |-> 0 - loyaltyData[i].totalDays,
                                    val |-> loyaltyData[i]]])
  IN IF msgs = <<>>
     THEN [streakRank |-> <<>>, loyaltyRank |-> <<>>, totalDays |-> 0]
     ELSE [streakRank |-> SortedBy([i \in 1..Len(ids) |->
                                      [key |-> 0 - streakData[i].maxStreak,
                                       val |-> streakData[i]]]),
           loyaltyRank |->
             [i \in 1..Len(sortedLoyalty) |->
                [memberId |-> sortedLoyalty[i].memberId,
                 name |-> sortedLoyalty[i].name,
                 totalDays |-> sortedLoyalty[i].totalDays,
                 percentage |-> Round(sortedLoyalty[i].totalDays * 100,
                                      sortedLoyalty[1].totalDays)]],
           totalDays |-> Cardinality(allDays)]

-----------------------------------------------------------------------------
(* The analytics queries that scan the messages: values *)

\* most message rows in a scanned store
MaxScan == 4

\* the member table of a scanned store, by id; the last one sends the
\* system messages
AMembers == <<[platformId |-> "a", name |-> "A"],
              [platformId |-> "b", name |-> "B"],
              [platformId |-> "c", name |-> "C"],
              [platformId |-> "s", name |-> SystemMessageName]>>

\* MessageType.TEXT, IMAGE, EMOJI and SYSTEM
TEXT == 0
IMAGE == 1
EMOJI == 5
SYSTEM == 6

\* String.prototype.trim, and TRIM of SQLite, on the contents of the model
Trim(c) == CASE c = " hi" -> "hi" [] c = " " -> "" [] OTHER -> c

\* the stores with up to n of Rows as message rows, in id order; at most one
\* row is older (ts 1) than the rows inserted before it
ScanStores(Rows, n) ==
  {[state |-> "ok",
    messages |-> [i \in 1..Len(rows) |->
                    IF i = k THEN [rows[i] EXCEPT !.ts = 1] ELSE rows[i]],
    first |-> 0] :
     rows \in SeqsUpTo(Rows, n), k \in 0..n}

\* map.set(key, (map.get(key) || 0) + 1) on a Map kept in insertion order
MapInc(m, k) ==
  IF \E i \in 1..Len(m) : m[i].key = k
  THEN [i \in 1..Len(m) |-> IF m[i].key = k
                            THEN [m[i] EXCEPT !.count = @ + 1] ELSE m[i]]
  ELSE Append(m, [key |-> k, count |-> 1])

\* the WHERE clause shared by the scans: the time filter and the exclusion
\* of the members named SystemMessageName
ScanRows(rows, filter) ==
  SelectSeq(rows, LAMBDA r : /\ InTimeFilter(r, filter)
                             /\ AMembers[r.senderId].name # SystemMessageName)

\* ORDER BY msg.ts ASC (rows with equal ts in id order)
OrderByTs(rows) == SortedBy([i \in 1..Len(rows) |-> [key |-> rows[i].ts,
                                                      val |-> rows[i]]])

-----------------------------------------------------------------------------
(* getRepeatAnalysis *)

\* processRepeatChain's loop over the followers of a chain, from entry i on:
\* a follower within 20 seconds of the entry before it adds its delay, in
\* milliseconds, to the stats of its sender
RECURSIVE AddFollowers(_, _, _)
AddFollowers(stats, chain, i) ==
  IF i > Len(chain) THEN stats
  ELSE LET id == chain[i].senderId
           diff == (chain[i].ts - chain[i - 1].ts) * 1000
           seen == \E k \in 1..Len(stats) : stats[k].key = id
           added == IF seen
                    THEN [k \in 1..Len(stats) |->
                            IF stats[k].key = id
                            THEN [stats[k] EXCEPT !.totalDiff = @ + diff,
                                                  !.count = @ + 1]
                            ELSE stats[k]]
                    ELSE Append(stats, [key |-> id, totalDiff |-> diff,
                                        count |-> 1])
       IN AddFollowers(IF diff <= 20 * 1000 THEN added ELSE stats, chain, i + 1)

\* processRepeatChain; breakerId 0 is undefined
ProcessRepeatChain(st, chain, breakerId) ==
  IF Len(chain) < 3 THEN st
  ELSE
    LET content == chain[1].content
        k == CHOOSE i \in 1..Len(st.contentStats) :
               st.contentStats[i].content = content
        seen == \E i \in 1..Len(st.contentStats) :
                  st.contentStats[i].content = content
        e == st.contentStats[k]
    IN [st EXCEPT
          !.totalRepeatChains = @ + 1,
          !.totalChainLength = @ + Len(chain),
          !.originatorCount = MapInc(@, chain[1].senderId),
          !.initiatorCount = MapInc(@, chain[2].senderId),
          !.breakerCount = IF breakerId # 0 THEN MapInc(@, breakerId) ELSE @,
          !.chainLengthCount = MapInc(@, Len(chain)),
          !.fastestRepeaterStats = AddFollowers(@, chain, 2),
          !.contentStats =
             IF seen
             THEN [@ EXCEPT ![k] =
                     [content |-> content,
                      count |-> e.count + 1,
                      maxChainLength |-> IF Len(chain) > e.maxChainLength
                                         THEN Len(chain) ELSE e.maxChainLength,
                      originatorId |-> IF Len(chain) > e.maxChainLength
                                       THEN chain[1].senderId ELSE e.originatorId,
                      lastTs |-> IF chain[1].ts > e.lastTs
                                 THEN chain[1].ts ELSE e.lastTs]]
             ELSE Append(@, [content |-> content, count |-> 1,
                             maxChainLength |-> Len(chain),
                             originatorId |-> chain[1].senderId,
                             lastTs |-> chain[1].ts])]

\* variant: a chain that also grows with a message from its last sender
ExtendsChain_AnySender(chain, msg) == TRUE

\* lastSender !== msg.senderId
ExtendsChain(chain, msg) == chain[Len(chain)].senderId # msg.senderId

\* the loop over the messages: the chain grows with a message of the
\* current content from another sender than its last entry, a message of the
\* current content from the same sender is passed over, a message of another
\* content closes the chain and starts the next one
RECURSIVE RepeatScan(_, _)
RepeatScan(st, msgs) ==
  IF msgs = <<>> THEN st
  ELSE
    LET msg == Head(msgs)
        content == Trim(msg.content)
        entry == [senderId |-> msg.senderId, content |-> content, ts |-> msg.ts]
        st1 == [st EXCEPT !.memberMessageCount = MapInc(@, msg.senderId)]
        st2 == IF st1.currentContent = Some(content)
               THEN IF ExtendsChain(st1.repeatChain, msg)
                    THEN [st1 EXCEPT !.repeatChain = Append(@, entry)]
                    ELSE st1
               ELSE [ProcessRepeatChain(st1, st1.repeatChain, msg.senderId)
                       EXCEPT !.currentContent = Some(content),
                              !.repeatChain = <<entry>>]
    IN RepeatScan(st2, Tail(msgs))

\* buildRankList
BuildRankList(countMap, total) ==
  SortedBy([i \in 1..Len(countMap) |->
              [key |-> 0 - countMap[i].count,
               val |-> [memberId |-> countMap[i].key,
                        name |-> AMembers[countMap[i].key].name,
                        count |-> countMap[i].count,
                        percentage |-> IF total > 0
                                       THEN Round(countMap[i].count * 10000, total)
                                       ELSE 0]]])

\* buildRateList: the share of a member's messages, in hundredths of a
\* percent, best first
BuildRateList(countMap, memberMessageCount) ==
  LET Total(id) ==
        memberMessageCount[CHOOSE k \in 1..Len(memberMessageCount) :
                             memberMessageCount[k].key = id].count
  IN SortedBy([i \in 1..Len(countMap) |->
                 [key |-> 0 - Round(countMap[i].count * 10000,
                                    Total(countMap[i].key)),
                  val |-> [memberId |-> countMap[i].key,
                           name |-> AMembers[countMap[i].key].name,
                           count |-> countMap[i].count,
                           totalMessages |-> Total(countMap[i].key),
                           rate |-> Round(countMap[i].count * 10000,
                                          Total(countMap[i].key))]]])

\* buildFastestList: the members with at least five follow-ups, fastest first
BuildFastestList(stats) ==
  SortedBy([i \in 1..Len(SelectSeq(stats, LAMBDA e : e.count >= 5)) |->
              LET e == SelectSeq(stats, LAMBDA x : x.count >= 5)[i]
              IN [key |-> Round(e.totalDiff, e.count),
                  val |-> [memberId |-> e.key, name |-> AMembers[e.key].name,
                           count |-> e.count,
                           avgTimeDiff |-> Round(e.totalDiff, e.count)]]])

\* getRepeatAnalysis: the text messages with a content, in (ts, id) order.
\* avgChainLength is in hundredths
GetRepeatAnalysis(rows, filter) ==
  LET messages ==
        OrderByTs(SelectSeq(ScanRows(rows, filter),
                            LAMBDA r : r.type = TEXT /\ Trim(r.content) # ""))
      st0 == [currentContent |-> None, repeatChain |-> <<>>,
              totalRepeatChains |-> 0, totalChainLength |-> 0,
              originatorCount |-> <<>>, initiatorCount |-> <<>>,
              breakerCount |-> <<>>, chainLengthCount |-> <<>>,
              contentStats |-> <<>>, memberMessageCount |-> <<>>,
              fastestRepeaterStats |-> <<>>]
      Result(st) ==
     [originators |-> BuildRankList(st.originatorCount, st.totalRepeatChains),
      initiators |-> BuildRankList(st.initiatorCount, st.totalRepeatChains),
      breakers |-> BuildRankList(st.breakerCount, st.totalRepeatChains),
      fastestRepeaters |-> BuildFastestList(st.fastestRepeaterStats),
      originatorRates |-> BuildRateList(st.originatorCount, st.memberMessageCount),
      initiatorRates |-> BuildRateList(st.initiatorCount, st.memberMessageCount),
      breakerRates |-> BuildRateList(st.breakerCount, st.memberMessageCount),
      chainLengthDistribution |->
        SortedBy([i \in 1..Len(st.chainLengthCount) |->
                    [key |-> st.chainLengthCount[i].key,
                     val |-> [length |-> st.chainLengthCount[i].key,
                              count |-> st.chainLengthCount[i].count]]]),
      hotContents |->
        SortedBy([i \in 1..Len(st.contentStats) |->
                    [key |-> 0 - st.contentStats[i].maxChainLength,
                     val |-> [content |-> st.contentStats[i].content,
                              count |-> st.contentStats[i].count,
                              maxChainLength |-> st.contentStats[i].maxChainLength,
                              originatorName |->
                                AMembers[st.contentStats[i].originatorId].name,
                              lastTs |-> st.contentStats[i].lastTs]]]),
      avgChainLength |-> IF st.totalRepeatChains > 0
                         THEN Round(st.totalChainLength * 100, st.totalRepeatChains)
                         ELSE 0,
      totalRepeatChains |-> st.totalRepeatChains]
  IN The({Result(st) :
            st \in {The({ProcessRepeatChain(scanned, scanned.repeatChain, 0) :
                           scanned \in {RepeatScan(st0, messages)}})}})

-----------------------------------------------------------------------------
(* getMonologueAnalysis *)

\* MAX_INTERVAL, 300 seconds, scaled down to the timestamps of the model
MAX_INTERVAL == 2

\* variant: a streak that a message at exactly MAX_INTERVAL does not extend
IsWithinInterval_Below(msg, currentStreak) ==
  msg.ts - currentStreak.lastTs < MAX_INTERVAL

\* isWithinInterval
IsWithinInterval(msg, currentStreak) ==
  msg.ts - currentStreak.lastTs <= MAX_INTERVAL

\* finishStreak
FinishStreak(st) ==
  LET cs == st.currentStreak
      known == \E i \in 1..Len(st.memberStats) :
                 st.memberStats[i].memberId = cs.senderId
      stats0 == IF known THEN st.memberStats
                ELSE Append(st.memberStats,
                       [memberId |-> cs.senderId, totalStreaks |-> 0,
                        maxCombo |-> 0, lowStreak |-> 0, midStreak |-> 0,
                        highStreak |-> 0])
  IN IF cs.count < 3 THEN st
     ELSE [st EXCEPT
             !.memberStats =
                [i \in 1..Len(stats0) |->
                   IF stats0[i].memberId # cs.senderId THEN stats0[i]
                   ELSE [stats0[i] EXCEPT
                           !.totalStreaks = @ + 1,
                           !.maxCombo = IF cs.count > @ THEN cs.count ELSE @,
                           !.highStreak = IF cs.count >= 10 THEN @ + 1 ELSE @,
                           !.midStreak = IF cs.count < 10 /\ cs.count >= 5
                                         THEN @ + 1 ELSE @,
                           !.lowStreak = IF cs.count < 5 THEN @ + 1 ELSE @]],
             !.globalMaxCombo =
                IF @ = None \/ cs.count > @[1].comboLength
                THEN Some([memberId |-> cs.senderId, comboLength |-> cs.count,
                           startTs |-> cs.startTs])
                ELSE @]

\* the loop over the messages
RECURSIVE MonologueScan(_, _)
MonologueScan(st, msgs) ==
  IF msgs = <<>> THEN st
  ELSE
    LET msg == Head(msgs)
        isSameSender == msg.senderId = st.currentStreak.senderId
        st2 == IF isSameSender /\ IsWithinInterval(msg, st.currentStreak)
               THEN [st EXCEPT !.currentStreak.count = @ + 1,
                               !.currentStreak.lastTs = msg.ts]
               ELSE [FinishStreak(st) EXCEPT
                       !.currentStreak = [senderId |-> msg.senderId, count |-> 1,
                                          startTs |-> msg.ts, lastTs |-> msg.ts]]
    IN MonologueScan(st2, Tail(msgs))

\* getMonologueAnalysis: the text messages in ts order
GetMonologueAnalysis(rows, filter) ==
  LET messages == OrderByTs(SelectSeq(ScanRows(rows, filter),
                                      LAMBDA r : r.type = TEXT))
      st0 == [currentStreak |-> [senderId |-> -1, count |-> 0, startTs |-> 0,
                                 lastTs |-> 0],
              memberStats |-> <<>>, globalMaxCombo |-> None]
      st == FinishStreak(MonologueScan(st0, messages))
  IN IF messages = <<>> THEN [rank |-> <<>>, maxComboRecord |-> None]
     ELSE [rank |->
             SortedBy([i \in 1..Len(st.memberStats) |->
                         [key |-> 0 - st.memberStats[i].totalStreaks,
                          val |-> [memberId |-> st.memberStats[i].memberId,
                                   name |-> AMembers[st.memberStats[i].memberId].name,
                                   totalStreaks |-> st.memberStats[i].totalStreaks,
                                   maxCombo |-> st.memberStats[i].maxCombo,
                                   lowStreak |-> st.memberStats[i].lowStreak,
                                   midStreak |-> st.memberStats[i].midStreak,
                                   highStreak |-> st.memberStats[i].highStreak]]]),
           maxComboRecord |->
             IF st.globalMaxCombo = None THEN None
             ELSE Some([memberId |-> st.globalMaxCombo[1].memberId,
                        memberName |-> AMembers[st.globalMaxCombo[1].memberId].name,
                        comboLength |-> st.globalMaxCombo[1].comboLength,
                        startTs |-> st.globalMaxCombo[1].startTs])]

-----------------------------------------------------------------------------
(* getMentionAnalysis *)

\* content.matchAll(/@([^\s@]+)/g) on the contents of the model: the names
\* after an @, in order
Mentions(content) ==
  CASE content = "@A" -> <<"A">>
    [] content = "@B" -> <<"B">>
    [] content = "@B @B" -> <<"B", "B">>
    [] content = "@zed" -> <<"zed">>
    [] OTHER -> <<>>

\* msg.content LIKE '%@%' on the contents of the model
ContainsAt(content) == content \in {"@A", "@B", "@B @B", "@zed", "a@"}

\* nameToMemberId.get(name) over the members not named SystemMessageName
\* (0: undefined)
NameToMemberId(name) ==
  IF \E i \in 1..Len(AMembers) :
       AMembers[i].name = name /\ name # SystemMessageName
  THEN CHOOSE i \in 1..Len(AMembers) : AMembers[i].name = name
  ELSE 0

\* variant: a match counts each time the name appears in the message
CountsMention_EveryMatch(mentionedId, senderId, mentionedInThisMsg) ==
  mentionedId # 0 /\ mentionedId # senderId

\* a match counts when it names a member, not the sender, and not a member
\* already counted for this message
CountsMention(mentionedId, senderId, mentionedInThisMsg) ==
  /\ mentionedId # 0 /\ mentionedId # senderId
  /\ mentionedId \notin mentionedInThisMsg

\* the loop over the matches of one message
RECURSIVE MatchScan(_, _, _, _)
MatchScan(st, senderId, names, mentionedInThisMsg) ==
  IF names = <<>> THEN st
  ELSE
    LET mentionedId == NameToMemberId(Head(names))
    IN IF CountsMention(mentionedId, senderId, mentionedInThisMsg)
       THEN MatchScan([st EXCEPT
                         !.totalMentions = @ + 1,
                         !.mentionMatrix = MapInc(@, <<senderId, mentionedId>>),
                         !.mentionerCount = MapInc(@, senderId),
                         !.mentionedCount = MapInc(@, mentionedId)],
                      senderId, Tail(names),
                      mentionedInThisMsg \cup {mentionedId})
       ELSE MatchScan(st, senderId, Tail(names), mentionedInThisMsg)

\* the loop over the messages
RECURSIVE MentionScan(_, _)
MentionScan(st, msgs) ==
  IF msgs = <<>> THEN st
  ELSE MentionScan(MatchScan(st, Head(msgs).senderId,
                             Mentions(Head(msgs).content), {}),
                   Tail(msgs))

\* variant: thresholds that a ratio has to exceed
RatioAtLeast_Above(n, d, tenths) == 10 * n > tenths * d

\* n / d >= tenths / 10
RatioAtLeast(n, d, tenths) == 10 * n >= tenths * d

\* the nested loops over mentionMatrix with processedPairs. mentionMatrix is
\* kept as one Map mm from <<fromId, toId>> to the count; entries lists it in
\* the order of the nested loops, by fromId in insertion order, and a pair
\* is processed at its first entry
MentionPairs(mm) ==
  LET entries ==
        SortedBy([i \in 1..Len(mm) |->
                    [key |-> SetMin({j \in 1..Len(mm) : mm[j].key[1] = mm[i].key[1]}),
                     val |-> [fromId |-> mm[i].key[1], toId |-> mm[i].key[2],
                              fromToCount |-> mm[i].count]]])
      Get(fromId, toId) ==
        IF \E j \in 1..Len(mm) : mm[j].key = <<fromId, toId>>
        THEN mm[CHOOSE j \in 1..Len(mm) : mm[j].key = <<fromId, toId>>].count
        ELSE 0
      Pairs(es) ==
        LET Processed(i) ==
              \A j \in 1..(i - 1) :
                <<es[j].fromId, es[j].toId>> # <<es[i].toId, es[i].fromId>>
            idx == SelectSeq([i \in 1..Len(es) |-> i], Processed)
        IN [k \in 1..Len(idx) |->
              [fromId |-> es[idx[k]].fromId, toId |-> es[idx[k]].toId,
               fromToCount |-> es[idx[k]].fromToCount,
               toFromCount |-> Get(es[idx[k]].toId, es[idx[k]].fromId),
               total |-> es[idx[k]].fromToCount
                           + Get(es[idx[k]].toId, es[idx[k]].fromId)]]
  IN The({Pairs(es) : es \in {entries}})

\* the one-way list: ratios are in hundredths
OneWay(pairs) ==
  LET Item(p) ==
        IF RatioAtLeast(p.fromToCount, p.total, 8)
        THEN [fromMemberId |-> p.fromId, fromName |-> AMembers[p.fromId].name,
              toMemberId |-> p.toId, toName |-> AMembers[p.toId].name,
              fromToCount |-> p.fromToCount, toFromCount |-> p.toFromCount,
              ratio |-> Round(100 * p.fromToCount, p.total)]
        ELSE [fromMemberId |-> p.toId, fromName |-> AMembers[p.toId].name,
              toMemberId |-> p.fromId, toName |-> AMembers[p.fromId].name,
              fromToCount |-> p.toFromCount, toFromCount |-> p.fromToCount,
              ratio |-> Round(100 * (p.total - p.fromToCount), p.total)]
      sel == SelectSeq(pairs, LAMBDA p :
               /\ p.total >= 3
               /\ \/ RatioAtLeast(p.fromToCount, p.total, 8)
                  \/ 10 * p.fromToCount <= 2 * p.total)
  IN SortedBy([i \in 1..Len(sel) |->
                 [key |-> 0 - Item(sel[i]).fromToCount, val |-> Item(sel[i])]])

\* the two-way list: balance is in hundredths
TwoWay(pairs) ==
  LET Lo(p) == Min(p.fromToCount, p.toFromCount)
      Hi(p) == p.total - Min(p.fromToCount, p.toFromCount)
      sel == SelectSeq(pairs, LAMBDA p :
               /\ p.total >= 5
               /\ p.toFromCount # 0 /\ p.fromToCount # 0
               /\ RatioAtLeast(Lo(p), Hi(p), 3))
  IN SortedBy([i \in 1..Len(sel) |->
                 [key |-> 0 - sel[i].total,
                  val |-> [member1Id |-> sel[i].fromId,
                           member2Id |-> sel[i].toId,
                           member1To2 |-> sel[i].fromToCount,
                           member2To1 |-> sel[i].toFromCount,
                           total |-> sel[i].total,
                           balance |-> Round(100 * Lo(sel[i]), Hi(sel[i]))]]])

\* getMentionAnalysis
GetMentionAnalysis(rows, filter) ==
  LET messages == SelectSeq(ScanRows(rows, filter),
                            LAMBDA r : r.type = TEXT /\ ContainsAt(r.content))
      Lists(st, pairs) ==
        [topMentioners |-> BuildRankList(st.mentionerCount, st.totalMentions),
         topMentioned |-> BuildRankList(st.mentionedCount, st.totalMentions),
         oneWay |-> OneWay(pairs), twoWay |-> TwoWay(pairs),
         totalMentions |-> st.totalMentions]
      Result(st) ==
        IF st.totalMentions = 0
        THEN [topMentioners |-> <<>>, topMentioned |-> <<>>, oneWay |-> <<>>,
              twoWay |-> <<>>, totalMentions |-> 0]
        ELSE The({Lists(st, pairs) : pairs \in {MentionPairs(st.mentionMatrix)}})
  IN The({Result(st) :
            st \in {MentionScan([mentionMatrix |-> <<>>, mentionedCount |-> <<>>,
                                 mentionerCount |-> <<>>, totalMentions |-> 0],
                                messages)}})

-----------------------------------------------------------------------------
(* getHourlyActivity, getWeekdayActivity, getMonthlyActivity *)

\* strftime('%H', ts, 'unixepoch', 'localtime') as an integer, in a zone
\* without offset
Hour(ts) == (ts \div 3600) % 24

\* variant: the weekday as strftime('%w') gives it, Sunday 0
Weekday_SundayIsZero(ts) == ((ts \div 86400) + 4) % 7

\* strftime('%w', ...) with Sunday as 7; 1970-01-01 was a Thursday
Weekday(ts) ==
  IF ((ts \div 86400) + 4) % 7 = 0 THEN 7 ELSE ((ts \div 86400) + 4) % 7

\* strftime('%m', ...) as an integer, for the timestamps of 1970
Month(ts) ==
  1 + Cardinality({c \in {31, 59, 90, 120, 151, 181, 212, 243, 273, 304, 334} :
                     ts \div 86400 >= c})

\* getHourlyActivity: GROUP BY hour, then one entry for each hour
GetHourlyActivity(rows, filter) ==
  LET Dense(msgs) ==
        [k \in 1..24 |->
           [hour |-> k - 1,
            messageCount |->
              Cardinality({i \in 1..Len(msgs) : Hour(msgs[i].ts) = k - 1})]]
  IN The({Dense(msgs) : msgs \in {ScanRows(rows, filter)}})

\* getWeekdayActivity
GetWeekdayActivity(rows, filter) ==
  LET Dense(msgs) ==
        [w \in 1..7 |->
           [weekday |-> w,
            messageCount |->
              Cardinality({i \in 1..Len(msgs) : Weekday(msgs[i].ts) = w})]]
  IN The({Dense(msgs) : msgs \in {ScanRows(rows, filter)}})

\* getMonthlyActivity
GetMonthlyActivity(rows, filter) ==
  LET Dense(msgs) ==
        [m \in 1..12 |->
           [month |-> m,
            messageCount |->
              Cardinality({i \in 1..Len(msgs) : Month(msgs[i].ts) = m})]]
  IN The({Dense(msgs) : msgs \in {ScanRows(rows, filter)}})

-----------------------------------------------------------------------------
(* getMemeBattleAnalysis *)

\* the length of topBattles, slice(0, 30), scaled down to the stores of the
\* model
TopBattlesLimit == 2

\* variant: a chain of at least three images is a battle, whoever sent them
ProcessChain_AnySenders(battles, currentChain) ==
  IF Len(currentChain) >= 3 THEN Append(battles, currentChain) ELSE battles

\* processChain: a chain of at least three images by at least two senders is
\* a battle
ProcessChain(battles, currentChain) ==
  IF /\ Len(currentChain) >= 3
     /\ Cardinality({currentChain[i].senderId : i \in 1..Len(currentChain)}) >= 2
  THEN Append(battles, currentChain)
  ELSE battles

\* the loop over the messages: an image or emoji extends the chain, any other
\* message ends it
RECURSIVE MemeScan(_, _)
MemeScan(st, msgs) ==
  IF msgs = <<>> THEN ProcessChain(st.battles, st.currentChain)
  ELSE IF Head(msgs).type \in {IMAGE, EMOJI}
       THEN MemeScan([st EXCEPT !.currentChain = Append(@, Head(msgs))],
                     Tail(msgs))
       ELSE MemeScan([battles |-> ProcessChain(st.battles, st.currentChain),
                      currentChain |-> <<>>], Tail(msgs))

\* the messages of all battles, in order
RECURSIVE SeqConcat(_)
SeqConcat(ss) == IF ss = <<>> THEN <<>> ELSE Head(ss) \o SeqConcat(Tail(ss))

RECURSIVE CountSenders(_, _)
CountSenders(m, msgs) ==
  IF msgs = <<>> THEN m
  ELSE CountSenders(MapInc(m, Head(msgs).senderId), Tail(msgs))

\* one entry of topBattles; participants are Object.values of a record keyed
\* by member id (ascending ids), sorted by imageCount
TopBattle(battle) ==
  [startTime |-> battle[1].ts,
   endTime |-> battle[Len(battle)].ts,
   totalImages |-> Len(battle),
   participantCount |-> Cardinality({battle[i].senderId : i \in 1..Len(battle)}),
   participants |->
     LET ids == SendersOf(battle)
     IN SortedBy([k \in 1..Len(ids) |->
                    [key |-> 0 - Len(RowsOf(battle, ids[k])),
                     val |-> [memberId |-> ids[k],
                              name |-> AMembers[ids[k]].name,
                              imageCount |-> Len(RowsOf(battle, ids[k]))]]])]

\* the result for the battles found (at most 30 of them); memberStats is a
\* Map in order of first appearance; platformId is left out of the ranks
MemeBattleResult(battles) ==
  IF battles = <<>>
  THEN [topBattles |-> <<>>, rankByCount |-> <<>>, rankByImageCount |-> <<>>,
        totalBattles |-> 0]
  ELSE LET all == The({CountSenders(<<>>, a) :
                         a \in {SeqConcat(battles)}})
           BattleCount(id) ==
             Cardinality({b \in 1..Len(battles) :
                            \E i \in 1..Len(battles[b]) :
                              battles[b][i].senderId = id})
       IN [topBattles |->
             The({SubSeq(sorted, 1, Min(Len(sorted), TopBattlesLimit)) :
                    sorted \in {SortedBy([b \in 1..Len(battles) |->
                                            [key |-> 0 - Len(battles[b]),
                                             val |-> TopBattle(battles[b])]])}}),
           rankByCount |->
             SortedBy([i \in 1..Len(all) |->
                         [key |-> 0 - BattleCount(all[i].key),
                          val |-> [memberId |-> all[i].key,
                                   name |-> AMembers[all[i].key].name,
                                   count |-> BattleCount(all[i].key),
                                   percentage |->
                                     Round(BattleCount(all[i].key) * 10000,
                                           Len(battles))]]]),
           rankByImageCount |-> BuildRankList(all, Len(SeqConcat(battles))),
           totalBattles |-> Len(battles)]

\* getMemeBattleAnalysis: the messages in the time filter WHERE msg.type != 6,
\* ORDER BY msg.ts ASC
GetMemeBattleAnalysis(rows, filter) ==
  The({MemeBattleResult(battles) :
         battles \in {MemeScan([battles |-> <<>>, currentChain |-> <<>>],
                               OrderByTs(SelectSeq(rows,
                                 LAMBDA r : /\ InTimeFilter(r, filter)
                                            /\ r.type # SYSTEM)))}})

\* getTimeRange: SELECT MIN(ts), MAX(ts) FROM message; null (None) when
\* there is no message, else the range
GetTimeRange(rows) ==
  IF rows = <<>> THEN None
  ELSE Some([start |-> SetMin({rows[i].ts : i \in 1..Len(rows)}),
             end |-> SetMax({rows[i].ts : i \in 1..Len(rows)})])

\* the emptyResult of each function
EmptyResult(fn) ==
  CASE fn = "getMemberActivity" -> <<>>
    [] fn = "getDivingAnalysis" -> [rank |-> <<>>]
    [] fn = "getCheckInAnalysis" ->
         [streakRank |-> <<>>, loyaltyRank |-> <<>>, totalDays |-> 0]
    [] fn = "getMonologueAnalysis" -> [rank |-> <<>>, maxComboRecord |-> None]
    [] fn = "getMemeBattleAnalysis" -> MemeBattleResult(<<>>)
    [] fn = "getTimeRange" -> None
    [] fn \in {"getHourlyActivity", "getWeekdayActivity", "getMonthlyActivity"}
         -> <<>>
    [] fn = "getMentionAnalysis" ->
         [topMentioners |-> <<>>, topMentioned |-> <<>>, oneWay |-> <<>>,
          twoWay |-> <<>>, totalMentions |-> 0]
    [] fn = "getRepeatAnalysis" ->
         [originators |-> <<>>, initiators |-> <<>>, breakers |-> <<>>,
          originatorRates |-> <<>>, initiatorRates |-> <<>>,
          breakerRates |-> <<>>,
          chainLengthDistribution |-> <<>>, hotContents |-> <<>>,
          avgChainLength |-> 0, totalRepeatChains |-> 0]

\* the ts that SELECT ts FROM message LIMIT 1 returns from the store
SampleTs(store) ==
  IF store.first = 0 THEN None ELSE Some(store.messages[store.first].ts)

\* the rows as the engine visits them for a query whose ORDER BY does not
\* decide between them: in id order, or with row store.first ahead of the
\* others (ORDER BY msg.ts ASC then keeps that order among equal timestamps)
EngineOrder(store) ==
  IF store.first = 0 THEN store.messages
  ELSE <<store.messages[store.first]>>
       \o SubSeq(store.messages, 1, store.first - 1)
       \o SubSeq(store.messages, store.first + 1, Len(store.messages))

\* the function's body after if (!db) return emptyResult
Compute(fn, store, filter, clock) ==
  CASE fn = "getMemberActivity" -> GetMemberActivity(store.messages, filter)
    [] fn = "getDivingAnalysis" -> GetDivingAnalysis(store.messages, filter, clock)
    [] fn = "getCheckInAnalysis" ->
         GetCheckInAnalysis(store.messages, filter, SampleTs(store))
    [] fn = "getRepeatAnalysis" -> GetRepeatAnalysis(store.messages, filter)
    [] fn = "getMonologueAnalysis" -> GetMonologueAnalysis(EngineOrder(store), filter)
    [] fn = "getMentionAnalysis" -> GetMentionAnalysis(store.messages, filter)
    [] fn = "getMemeBattleAnalysis" ->
         GetMemeBattleAnalysis(EngineOrder(store), filter)
    [] fn = "getHourlyActivity" -> GetHourlyActivity(store.messages, filter)
    [] fn = "getTimeRange" -> GetTimeRange(store.messages)
    [] fn = "getWeekdayActivity" -> GetWeekdayActivity(store.messages, filter)
    [] fn = "getMonthlyActivity" -> GetMonthlyActivity(store.messages, filter)

-----------------------------------------------------------------------------
(* The analytics queries: the worker's handlers *)

NoCall == [fn |-> "none", filter |-> NoFilter, clock |-> 0, threw |-> FALSE,
           out |-> <<>>]

\* one call fn(sessionId, filter): what it returns, or that it threw
CallOf(fn, filter) ==
  LET conn == OpenDatabase
  IN [fn |-> fn, filter |-> filter, clock |-> now,
      threw |-> conn = "throws",
      out |-> IF conn = "db" THEN Compute(fn, qstore, filter, now)
              ELSE EmptyResult(fn)]

\* calls is <<c, r>>: a call c and the latest later call r with c's function
\* and filter (NoCall: none yet). A call with other arguments starts a new
\* pair
Logged(c) ==
  IF c.fn = calls[1].fn /\ c.filter = calls[1].filter
  THEN <<calls[1], c>>
  ELSE <<c, NoCall>>

\* the handler of one analytics request; openDatabase caches the connection
Queried(fn) ==
  /\ qstore.state # "none"
  /\ \E filter \in Filters : calls' = Logged(CallOf(fn, filter))
  /\ dbCache' = (dbCache \/ qstore.state = "ok")
  /\ UNCHANGED <<qstore, now>>
  /\ UNCHANGED <<pvars, ivars, wvars, xvars>>

QueryMemberActivity ==
  /\ Queried("getMemberActivity")

QueryDivingAnalysis ==
  /\ Queried("getDivingAnalysis")

QueryCheckInAnalysis ==
  /\ Queried("getCheckInAnalysis")

\* closeDatabase
CloseDatabase ==
  /\ dbCache
  /\ dbCache' = FALSE
  /\ UNCHANGED <<qstore, now, calls>>
  /\ UNCHANGED <<pvars, ivars, wvars, xvars>>

\* a second passes
Tick ==
  /\ qstore.state # "none"
  /\ now < MaxNow
  /\ now' = now + 1
  /\ UNCHANGED <<qstore, dbCache, calls>>
  /\ UNCHANGED <<pvars, ivars, wvars, xvars>>

\* the handler of one request for a scan of the messages
Analyzed(fn, filters) ==
  /\ qstore.state # "none"
  /\ \E filter \in filters : calls' = <<CallOf(fn, filter), NoCall>>
  /\ dbCache' = (dbCache \/ qstore.state = "ok")
  /\ UNCHANGED <<qstore, now>>
  /\ UNCHANGED <<pvars, ivars, wvars, xvars>>

QueryRepeatAnalysis ==
  /\ Analyzed("getRepeatAnalysis", {NoFilter})

QueryMonologueAnalysis ==
  /\ Analyzed("getMonologueAnalysis", {NoFilter})

QueryMentionAnalysis ==
  /\ Analyzed("getMentionAnalysis", {NoFilter})

QueryTimeRange ==
  /\ Analyzed("getTimeRange", {NoFilter})

QueryMemeBattleAnalysis ==
  /\ Analyzed("getMemeBattleAnalysis",
              {NoFilter, [startTs |-> Some(2), endTs |-> None]})

\* the time filters of the activity requests: none, and 09:00 to 09:30 of
\* 1970-01-01
ActivityFilters ==
  {NoFilter, [startTs |-> Some(32400), endTs |-> Some(34200)]}

QueryHourlyActivity ==
  /\ Analyzed("getHourlyActivity", ActivityFilters)

QueryWeekdayActivity ==
  /\ Analyzed("getWeekdayActivity", ActivityFilters)

QueryMonthlyActivity ==
  /\ Analyzed("getMonthlyActivity", ActivityFilters)

NoStore == [state |-> "none", messages |-> <<>>, first |-> 0]

-----------------------------------------------------------------------------
(* Spec: the worker serving one streamImport request *)

Init ==
  /\ file = NoFile /\ batchSize = ImportBatchSize /\ ParserIdle /\ WorkerIdle /\ RestIdle
  /\ pc = "idle" /\ db = NoDb /\ imp = InitImp /\ tempFile = "none"
  /\ result = "none" /\ failed = {} /\ served = {} /\ doneCounts = None
  /\ qstore = NoStore /\ dbCache = FALSE /\ now = 0
  /\ calls = <<NoCall, NoCall>>

Next ==
  \/ ReceiveStreamImport
  \/ PreprocessOk
  \/ PreprocessFail
  \/ CreateDatabase
  \/ CreateDatabaseThrows
  \/ ParserStep
  \/ DispatchEvent
  \/ InsertThrows
  \/ BatchCommitThrows
  \/ ParserThrows
  \/ FinalCommit
  \/ FinalCommitThrows
  \/ WriteHistory
  \/ WriteHistoryThrows
  \/ CreateIndexes
  \/ CreateIndexesThrows
  \/ FinalCheckpoint
  \/ SendProgressThrows
  \/ ServeGetAllSessions

Spec == Init /\ [][Next]_vars

-----------------------------------------------------------------------------
(* SpecParse: a parser driven by a consumer that only takes the events *)

\* the files of the model, and files with a name that holds an invalid byte
ParseFiles ==
  Files(MaxMsgs)
  \cup [fmt : {"chatlab", "v4"},
        recs : SeqsUpTo({Rec("u1", "n1", "", Some(1)),
                         Rec("u1", ReplacedName, "", Some(1))}, MaxMsgs),
        head : {<<>>}, big : {FALSE}]

ParseBegin ==
  /\ ppc = "idle"
  /\ \E f \in ParseFiles, b \in 1..MaxBatch :
       /\ file' = f
       /\ batchSize' = b
  /\ ppc' = "init"
  /\ UNCHANGED <<pidx, batchCollector, messageBatch, memberMap,
                 messagesProcessed, yi, ev, trace>>
  /\ UNCHANGED <<ivars, qvars, wvars, xvars>>

TakeEvent ==
  /\ ev # NoEv
  /\ ev' = NoEv
  /\ UNCHANGED <<file, batchSize, ppc, pidx, batchCollector, messageBatch,
                 memberMap, messagesProcessed, yi, trace>>
  /\ UNCHANGED <<ivars, qvars, wvars, xvars>>

InitParse == Init

NextParse == ParseBegin \/ ParserStep \/ TakeEvent

SpecParse == InitParse /\ [][NextParse]_vars

-----------------------------------------------------------------------------
(* SpecQuery: analytics requests on a store that nothing modifies *)

InitQuery ==
  /\ file = NoFile /\ batchSize = ImportBatchSize /\ ParserIdle /\ WorkerIdle /\ RestIdle
  /\ pc = "idle" /\ db = NoDb /\ imp = InitImp /\ tempFile = "none"
  /\ result = "none" /\ failed = {} /\ served = {} /\ doneCounts = None
  /\ qstore \in QStores
  /\ dbCache = FALSE
  /\ now = SetMax(QTimestamps)
  /\ calls = <<NoCall, NoCall>>

NextQuery ==
  \/ QueryMemberActivity
  \/ QueryDivingAnalysis
  \/ QueryCheckInAnalysis
  \/ CloseDatabase
  \/ Tick

SpecQuery == InitQuery /\ [][NextQuery]_vars

-----------------------------------------------------------------------------
(* SpecRepeat: getRepeatAnalysis on a store of text messages *)

\* a worker that has a store to scan and has served no request yet
InitScan(stores) ==
  /\ file = NoFile /\ batchSize = ImportBatchSize /\ ParserIdle /\ WorkerIdle /\ RestIdle
  /\ pc = "idle" /\ db = NoDb /\ imp = InitImp /\ tempFile = "none"
  /\ result = "none" /\ failed = {} /\ served = {} /\ doneCounts = None
  /\ qstore \in stores
  /\ dbCache = FALSE
  /\ now = 0
  /\ calls = <<NoCall, NoCall>>

\* text messages of three members; the first one also sends a content with
\* a leading blank
RepeatRows ==
  [senderId : 1..3, ts : {2}, type : {TEXT}, content : {"hi", "bye"}]
  \cup {[senderId |-> 1, ts |-> 2, type |-> TEXT, content |-> " hi"]}

InitRepeat == InitScan(ScanStores(RepeatRows, MaxScan))

SpecRepeat == InitRepeat /\ [][QueryRepeatAnalysis]_vars

-----------------------------------------------------------------------------
(* SpecMonologue: getMonologueAnalysis on a store of text messages *)

\* most message rows of a store scanned for monologues
MaxMono == 5

\* the ts of the i-th message: the gaps to the previous message added up
RECURSIVE TsAt(_, _)
TsAt(gs, i) == IF i = 0 THEN 0 ELSE TsAt(gs, i - 1) + gs[i].gap

\* text messages of two members, each below, at or above MAX_INTERVAL after
\* the previous one; inserted oldest first or newest first
MonologueStores ==
  {[state |-> "ok",
    messages |-> [i \in 1..Len(gs) |->
                    LET j == IF rev THEN Len(gs) + 1 - i ELSE i
                    IN [senderId |-> gs[j].senderId, ts |-> TsAt(gs, j),
                        type |-> TEXT, content |-> "hi"]],
    first |-> 0] :
     gs \in SeqsUpTo([senderId : 1..2, gap : 1..(MAX_INTERVAL + 1)], MaxMono),
     rev \in BOOLEAN}

InitMonologue == InitScan(MonologueStores)

SpecMonologue == InitMonologue /\ [][QueryMonologueAnalysis]_vars

-----------------------------------------------------------------------------
(* SpecMention: getMentionAnalysis on a store of mentions *)

\* most mentions of one member by another
MaxMentions == 9

\* x messages of A that mention B and y messages of B that mention A, then
\* possibly a message that mentions B twice, its sender, nobody known or
\* nobody at all, and possibly three messages of C that mention A; read in
\* this order or in the opposite order
MentionStores ==
  {[state |-> "ok",
    messages |->
      LET Msg(id, c) == [senderId |-> id, ts |-> 2, type |-> TEXT, content |-> c]
          ms == [i \in 1..x |-> Msg(1, "@B")] \o [i \in 1..y |-> Msg(2, "@A")]
                  \o extra
                  \o (IF third THEN [i \in 1..3 |-> Msg(3, "@A")] ELSE <<>>)
      IN [i \in 1..Len(ms) |-> IF rev THEN ms[Len(ms) + 1 - i] ELSE ms[i]],
    first |-> 0] :
     x \in 0..MaxMentions, y \in 0..MaxMentions,
     extra \in {<<>>} \cup
               {<<[senderId |-> 1, ts |-> 2, type |-> TEXT, content |-> c]>> :
                  c \in {"@B @B", "@A", "@zed", "a@"}},
     third \in BOOLEAN, rev \in BOOLEAN}

InitMention == InitScan(MentionStores)

SpecMention == InitMention /\ [][QueryMentionAnalysis]_vars

-----------------------------------------------------------------------------
(* SpecActivity: the activity distributions *)

\* messages of A at 09:00 and 09:30 of Thursday 1970-01-01, at 23:00 of
\* Sunday 1970-01-04 and at 00:00 of Tuesday 1970-02-10, and a system
\* message at 09:00 of 1970-01-01
ActivityStores ==
  {[state |-> "ok", messages |-> rows, first |-> 0] :
     rows \in SeqsUpTo([senderId : {1}, ts : {32400, 34200, 342000, 3456000},
                        type : {TEXT}, content : {"hi"}]
                         \cup {[senderId |-> 4, ts |-> 32400, type |-> SYSTEM,
                                content |-> "hi"]},
                       MaxScan)}

InitActivity == InitScan(ActivityStores)

NextActivity ==
  \/ QueryHourlyActivity
  \/ QueryWeekdayActivity
  \/ QueryMonthlyActivity

SpecActivity == InitActivity /\ [][NextActivity]_vars

-----------------------------------------------------------------------------
(* SpecMeme: images and texts of members and of a member named as the system *)

\* images and texts of A, B and the member named SystemMessageName, an emoji
\* of A and a message of type SYSTEM; the k-th message has timestamp k
MemeStores ==
  {[state |-> "ok",
    messages |-> [k \in 1..Len(rows) |-> [rows[k] EXCEPT !.ts = k]],
    first |-> 0] :
     rows \in SeqsUpTo([senderId : {1, 2, 4}, ts : {0}, type : {IMAGE, TEXT},
                        content : {"hi"}]
                         \cup {[senderId |-> 1, ts |-> 0, type |-> EMOJI,
                                content |-> "hi"],
                               [senderId |-> 4, ts |-> 0, type |-> SYSTEM,
                                content |-> "hi"]},
                       MaxScan)}

InitMeme == InitScan(MemeStores)

NextMeme ==
  \/ QueryMemeBattleAnalysis
  \/ QueryRepeatAnalysis

SpecMeme == InitMeme /\ [][NextMeme]_vars

-----------------------------------------------------------------------------
(* SpecOrder: the scans in time order on stores with equal timestamps *)

\* images and texts of A and B with timestamp 1 and a text of A with
\* timestamp 2, in any order of insertion; first: the row the engine visits
\* first where the query leaves the order open
OrderStores ==
  {[state |-> "ok", messages |-> rows, first |-> k] :
     rows \in SeqsUpTo([senderId : {1, 2}, ts : {1}, type : {IMAGE, TEXT},
                        content : {"hi"}]
                         \cup {[senderId |-> 1, ts |-> 2, type |-> TEXT,
                                content |-> "hi"]},
                       MaxScan),
     k \in 0..MaxScan}

InitOrder == InitScan({st \in OrderStores : st.first <= Len(st.messages)})

NextOrder ==
  \/ QueryRepeatAnalysis
  \/ QueryMonologueAnalysis
  \/ QueryMemeBattleAnalysis

SpecOrder == InitOrder /\ [][NextOrder]_vars

-----------------------------------------------------------------------------
(* SpecFields: requests on a missing store, an empty one and one with rows *)

FieldStores ==
  {[state |-> "missing", messages |-> <<>>, first |-> 0]}
  \cup {[state |-> "ok", messages |-> rows, first |-> 0] :
          rows \in SeqsUpTo(RepeatRows, MaxScan)}

InitFields == InitScan(FieldStores)

NextFields ==
  \/ QueryRepeatAnalysis
  \/ QueryMonologueAnalysis
  \/ QueryTimeRange

SpecFields == InitFields /\ [][NextFields]_vars

-----------------------------------------------------------------------------
(* SpecPercent: the percentages of member activity and check-in *)

\* messages of the first member on three days and of the second on the
\* first day, timestamps in seconds
PercentStores ==
  {[state |-> "ok", messages |-> rows,
    first |-> IF rows = <<>> THEN 0 ELSE 1] :
     rows \in SeqsUpTo([senderId : {1}, ts : {1, 3, 5}]
                         \cup {[senderId |-> 2, ts |-> 1]}, MaxScan)}

InitPercent == InitScan(PercentStores)

NextPercent ==
  \/ QueryMemberActivity
  \/ QueryCheckInAnalysis

SpecPercent == InitPercent /\ [][NextPercent]_vars

-----------------------------------------------------------------------------
(* SpecWorker: parentPort.on('message') *)

\* { id, success: true, result } when error is "", else
\* { id, success: false, error }
Response(id, error) ==
  [id |-> id, type |-> "response", success |-> error = "", error |-> error]

\* variant: an async branch without its return: the handler goes on to look
\* the type up among the sync handlers, where it is unknown
PostResult_NoReturn(id) ==
  <<Response(id, ""), Response(id, "Unknown message type")>>

\* the async branch after the handler resolved: postMessage(success), return
PostResult(id) == <<Response(id, "")>>

\* a message of a type with a sync handler: the handler returns and the
\* result is posted, or it throws and the catch block posts the error
ReceiveSync ==
  \E id \in 1..MaxRequests, error \in {"", "thrown"} :
    /\ pending[id] = "none"
    /\ pending' = [pending EXCEPT ![id] = "done"]
    /\ posted' = Append(posted, Response(id, error))
    /\ UNCHANGED <<pvars, ivars, qvars, xvars>>

\* a message of an unknown type: throw new Error, posted by the catch block
ReceiveUnknown ==
  \E id \in 1..MaxRequests :
    /\ pending[id] = "none"
    /\ pending' = [pending EXCEPT ![id] = "done"]
    /\ posted' = Append(posted, Response(id, "Unknown message type"))
    /\ UNCHANGED <<pvars, ivars, qvars, xvars>>

\* a message of a type with an async handler (streamImport,
\* streamParseFileInfo): the handler is called and awaited
ReceiveAsync ==
  \E id \in 1..MaxRequests :
    /\ pending[id] = "none"
    /\ pending' = [pending EXCEPT ![id] = "awaiting"]
    /\ UNCHANGED posted
    /\ UNCHANGED <<pvars, ivars, qvars, xvars>>

\* sendProgress(requestId, progress) by a handler that has not settled
SendProgress ==
  \E id \in 1..MaxRequests :
    /\ pending[id] = "awaiting"
    /\ Cardinality({i \in 1..Len(posted) :
                      posted[i].id = id /\ posted[i].type = "progress"})
         < MaxProgress
    /\ posted' = Append(posted, [id |-> id, type |-> "progress",
                                 success |-> TRUE, error |-> ""])
    /\ UNCHANGED pending
    /\ UNCHANGED <<pvars, ivars, qvars, xvars>>

\* the awaited handler resolves: the result is posted
HandlerResolves ==
  \E id \in 1..MaxRequests :
    /\ pending[id] = "awaiting"
    /\ pending' = [pending EXCEPT ![id] = "done"]
    /\ posted' = posted \o PostResult(id)
    /\ UNCHANGED <<pvars, ivars, qvars, xvars>>

\* the awaited handler rejects: the catch block posts the error
HandlerRejects ==
  \E id \in 1..MaxRequests :
    /\ pending[id] = "awaiting"
    /\ pending' = [pending EXCEPT ![id] = "done"]
    /\ posted' = Append(posted, Response(id, "thrown"))
    /\ UNCHANGED <<pvars, ivars, qvars, xvars>>

NextWorker ==
  \/ ReceiveSync
  \/ ReceiveUnknown
  \/ ReceiveAsync
  \/ SendProgress
  \/ HandlerResolves
  \/ HandlerRejects

SpecWorker == Init /\ [][NextWorker]_vars

-----------------------------------------------------------------------------
(* Properties of streamImport (Spec) *)

\* the steps inside the try block whose exception reaches the catch
TrySteps == {"parser", "insert", "commit", "history", "indexes"}

C3_CountsMatchDone ==
  (result = "success" /\ doneCounts # None)
    => /\ Len(db.disk.messages) = doneCounts[1].messageCount
       /\ Len(db.disk.members) = doneCounts[1].memberCount

\* the rows of member_name_history of member id, in row order
HistoryOf(id) == SelectSeq(db.disk.history, LAMBDA h : h.memberId = id)

\* C4: after a successful import the nickname-history rows of each member,
\* ordered by start timestamp, are contiguous (each ends where the next
\* starts) and exactly the last one has no end
C4_HistoryContiguous ==
  result = "success" =>
    \A id \in 1..Len(db.disk.members) :
      LET rows == HistoryOf(id)
      IN \A i \in 1..Len(rows) :
           IF i < Len(rows)
           THEN /\ rows[i].startTs <= rows[i + 1].startTs
                /\ rows[i].endTs = Some(rows[i + 1].startTs)
           ELSE rows[i].endTs = None

\* a member's second name was first used at an earlier timestamp than the
\* first one, and the import succeeded with two history rows
C4_Witness ==
  /\ result = "success"
  /\ Len(db.disk.history) = 2
  /\ Len(db.disk.messages) = 2
  /\ db.disk.messages[1].ts > db.disk.messages[2].ts

\* C9: the store file is created only after the format was detected and the
\* preprocessing, when needed, succeeded; a failure of either returns failure
\* and no store file was ever created
C9_StoreOnlyAfterDetectAndPreprocess ==
  /\ db.created
       => /\ file.fmt \in {"chatlab", "v4"}
          /\ file.big => tempFile # "none"
          /\ failed \cap {"detect", "preprocess"} = {}
  /\ failed \cap {"detect", "preprocess"} # {}
       => pc = "returned" /\ result = "failure" /\ ~db.created /\ ~db.file

\* the preprocessor failed and streamImport returned
C9_Witness ==
  /\ pc = "returned" /\ "preprocess" \in failed /\ file.big

\* C10: whenever the preprocessor produced a temp file, it has been cleaned
\* up once streamImport has returned or thrown
C10_TempFileCleaned ==
  (pc \in {"returned", "thrown"} /\ tempFile # "none") => tempFile = "cleaned"

-----------------------------------------------------------------------------
(* Properties of the parsers (SpecParse) *)

Positions(t) == {i \in 1..Len(trace) : trace[i].type = t}

\* C5: the events of a completed parse hold exactly one meta event, before
\* every messages event, and exactly one done event, which is the last
C5_EventOrder ==
  ppc = "finished" =>
    /\ Cardinality(Positions("meta")) = 1
    /\ \A i \in Positions("messages") : \A j \in Positions("meta") : j < i
    /\ Cardinality(Positions("done")) = 1
    /\ trace[Len(trace)].type = "done"

\* a parse completed after yielding two batches of messages
C5_Witness ==
  /\ ppc = "finished"
  /\ Cardinality(Positions("messages")) = 2

-----------------------------------------------------------------------------
(* Properties of the analytics queries (SpecQuery) *)

\* the store with only the message rows inside the filter, where a SELECT
\* without ORDER BY returns row k first
Restricted(store, filter, k) ==
  [state |-> "ok",
   messages |-> SelectSeq(store.messages, LAMBDA r : InTimeFilter(r, filter)),
   first |-> k]

FirstChoices(store) ==
  IF store.messages = <<>> THEN {0} ELSE 1..Len(store.messages)

SpanningFilter == [startTs |-> Some(0), endTs |-> Some(SetMax(QTimestamps))]

\* C6: only the messages inside the filter contribute to a result (it is a
\* result of the same function, unfiltered, on the store without the other
\* messages), and a filter that spans every timestamp gives the result of no
\* filter
C6_OnlyRangeContributes ==
  \A i \in 1..2 :
    LET c == calls[i]
    IN (c.fn # "none" /\ qstore.state = "ok") =>
         /\ \E k \in FirstChoices(Restricted(qstore, c.filter, 0)) :
              c.out = Compute(c.fn, Restricted(qstore, c.filter, k),
                              NoFilter, c.clock)
         /\ c.filter = SpanningFilter =>
              c.out = Compute(c.fn, qstore, NoFilter, c.clock)

C8_MissingOrUnopenableIsEmpty ==
  \A i \in 1..2 :
    (calls[i].fn # "none" /\ qstore.state \in {"missing", "corrupt"})
      => ~calls[i].threw /\ calls[i].out = EmptyResult(calls[i].fn)

-----------------------------------------------------------------------------
(* Properties of sendProgress (Spec) *)

\* C11: when a send of a progress message is the only thing that failed
\* during streamImport, the import is not aborted: it returns success and
\* the store file stays, as it would with every send succeeding
C11_SendFailureDoesNotAbort ==
  (pc = "returned" /\ failed = {"send"})
    => result = "success" /\ db.file /\ GetAllSessionsLists

-----------------------------------------------------------------------------
(* Properties of getRepeatAnalysis (SpecRepeat) *)

\* the last message of the run of equal contents that starts at a
SegEnd(M, a) ==
  SetMax({b \in a..Len(M) :
            \A k \in a..b : Trim(M[k].content) = Trim(M[a].content)})

\* the positions of the chain of the run a..b: a, and every later message
\* whose sender differs from the sender of the chain's last entry
RECURSIVE ChainOf(_, _, _)
ChainOf(M, a, b) ==
  IF b = a THEN <<a>>
  ELSE LET c == ChainOf(M, a, b - 1)
       IN IF M[b].senderId # M[c[Len(c)]].senderId THEN Append(c, b) ELSE c

\* the closed chains of length >= 3, one for each run of equal contents
ClosedChains(M) ==
  {e \in {[start |-> a,
           length |-> Len(ChainOf(M, a, SegEnd(M, a))),
           content |-> Trim(M[a].content),
           originator |-> M[a].senderId,
           initiator |-> IF Len(ChainOf(M, a, SegEnd(M, a))) >= 2
                         THEN M[ChainOf(M, a, SegEnd(M, a))[2]].senderId ELSE 0,
           breaker |-> IF SegEnd(M, a) < Len(M)
                       THEN M[SegEnd(M, a) + 1].senderId ELSE 0] :
          a \in {i \in 1..Len(M) :
                   i = 1 \/ Trim(M[i].content) # Trim(M[i - 1].content)}} :
     e.length >= 3}

\* the count of member m in a rank list
CountOf(rank, m) ==
  IF \E i \in 1..Len(rank) : rank[i].memberId = m
  THEN rank[CHOOSE i \in 1..Len(rank) : rank[i].memberId = m].count
  ELSE 0

\* A:"hi", B:"hi", C:"hi", A:"bye"
RepeatScenario ==
  <<[senderId |-> 1, ts |-> 2, type |-> TEXT, content |-> "hi"],
    [senderId |-> 2, ts |-> 2, type |-> TEXT, content |-> "hi"],
    [senderId |-> 3, ts |-> 2, type |-> TEXT, content |-> "hi"],
    [senderId |-> 1, ts |-> 2, type |-> TEXT, content |-> "bye"]>>

\* C12: getRepeatAnalysis counts every closed chain of length >= 3 once: a
\* chain is a run of messages of one content, in (ts, id) order, without the
\* messages sent by the sender of the chain's last entry; its originator is
\* the sender of its first entry, its initiator the sender of its second
\* entry, its breaker the sender of the message that closed it (none at the
\* end of the scan); a hot content has the length of its longest chain. For
\* A:"hi", B:"hi", C:"hi", A:"bye": one chain of length 3, originator A,
\* initiator B, breaker A, hot content "hi" with max chain length 3
C12_RepeatChains ==
  calls[1].fn = "getRepeatAnalysis" =>
    LET out == calls[1].out
        M == OrderByTs(qstore.messages)
        E == ClosedChains(M)
    IN /\ out.totalRepeatChains = Cardinality(E)
       /\ \A m \in 1..Len(AMembers) :
            /\ CountOf(out.originators, m)
                 = Cardinality({e \in E : e.originator = m})
            /\ CountOf(out.initiators, m)
                 = Cardinality({e \in E : e.initiator = m})
            /\ CountOf(out.breakers, m)
                 = Cardinality({e \in E : e.breaker = m})
       /\ \A c \in {e.content : e \in E} :
            \E i \in 1..Len(out.hotContents) :
              /\ out.hotContents[i].content = c
              /\ out.hotContents[i].count = Cardinality({e \in E : e.content = c})
              /\ out.hotContents[i].maxChainLength
                   = SetMax({e.length : e \in {x \in E : x.content = c}})
       /\ Len(out.hotContents) = Cardinality({e.content : e \in E})
       /\ qstore.messages = RepeatScenario =>
            /\ out.totalRepeatChains = 1
            /\ out.chainLengthDistribution = <<[length |-> 3, count |-> 1]>>
            /\ out.originators = <<[memberId |-> 1, name |-> "A", count |-> 1,
                                    percentage |-> 10000]>>
            /\ out.initiators = <<[memberId |-> 2, name |-> "B", count |-> 1,
                                   percentage |-> 10000]>>
            /\ out.breakers = <<[memberId |-> 1, name |-> "A", count |-> 1,
                                 percentage |-> 10000]>>
            /\ out.hotContents = <<[content |-> "hi", count |-> 1,
                                    maxChainLength |-> 3, originatorName |-> "A",
                                    lastTs |-> 2]>>

\* getRepeatAnalysis has scanned A:"hi", B:"hi", C:"hi", A:"bye"
C12_Witness ==
  /\ calls[1].fn = "getRepeatAnalysis"
  /\ qstore.messages = RepeatScenario
  /\ calls[1].out.totalRepeatChains = 1

-----------------------------------------------------------------------------
(* Properties of getMonologueAnalysis (SpecMonologue) *)

\* message k continues the run of message k - 1: same sender, and a gap of
\* at most limit
Continues(M, k, limit) ==
  /\ k > 1
  /\ M[k].senderId = M[k - 1].senderId
  /\ M[k].ts - M[k - 1].ts <= limit

\* the maximal runs of length >= 3
Streaks(M, limit) ==
  {r \in {[start |-> a,
           senderId |-> M[a].senderId,
           length |-> SetMax({b \in a..Len(M) :
                                \A k \in (a + 1)..b : Continues(M, k, limit)})
                        - a + 1] :
          a \in {i \in 1..Len(M) : ~Continues(M, i, limit)}} :
     r.length >= 3}

\* the result counts every maximal run of length >= 3 once for its sender,
\* and the max-combo record has the length of the longest of them
StreaksCounted(limit) ==
  calls[1].fn = "getMonologueAnalysis" =>
    LET out == calls[1].out
        M == OrderByTs(qstore.messages)
        S == Streaks(M, limit)
    IN /\ \A m \in 1..Len(AMembers) :
            LET mine == {r \in S : r.senderId = m}
            IN IF mine = {}
               THEN \A i \in 1..Len(out.rank) : out.rank[i].memberId # m
               ELSE \E i \in 1..Len(out.rank) :
                      /\ out.rank[i].memberId = m
                      /\ out.rank[i].totalStreaks = Cardinality(mine)
                      /\ out.rank[i].maxCombo = SetMax({r.length : r \in mine})
                      /\ \A j \in 1..Len(out.rank) :
                           out.rank[j].memberId = m => j = i
       /\ IF S = {} THEN out.maxComboRecord = None
          ELSE /\ out.maxComboRecord # None
               /\ out.maxComboRecord[1].comboLength = SetMax({r.length : r \in S})
       /\ (Len(M) = 5 /\ \A k \in 2..5 : Continues(M, k, MAX_INTERVAL - 1))
            => /\ Len(out.rank) = 1
               /\ out.rank[1].totalStreaks = 1 /\ out.rank[1].maxCombo = 5
               /\ out.maxComboRecord[1].comboLength = 5

-----------------------------------------------------------------------------
(* Properties of getMentionAnalysis (SpecMention) *)

\* the number of messages of member a that mention member b
MentionsFromTo(a, b) ==
  Cardinality({i \in 1..Len(qstore.messages) :
                 /\ qstore.messages[i].senderId = a
                 /\ \E k \in 1..Len(Mentions(qstore.messages[i].content)) :
                      Mentions(qstore.messages[i].content)[k] = AMembers[b].name})

-----------------------------------------------------------------------------
(* Properties of the activity distributions (SpecActivity) *)

RECURSIVE SumOfCounts(_)
SumOfCounts(entries) ==
  IF entries = <<>> THEN 0
  ELSE Head(entries).messageCount + SumOfCounts(Tail(entries))

\* the non-system messages of the store in the range of the call's filter
Counted ==
  {i \in 1..Len(qstore.messages) :
     /\ AMembers[qstore.messages[i].senderId].name # SystemMessageName
     /\ calls[1].filter.startTs # None
          => qstore.messages[i].ts >= calls[1].filter.startTs[1]
     /\ calls[1].filter.endTs # None
          => qstore.messages[i].ts <= calls[1].filter.endTs[1]}

\* C15: for an existing session and any time filter getHourlyActivity
\* returns 24 entries, the hours 0..23 once each, getWeekdayActivity 7, the
\* weekdays 1..7, getMonthlyActivity 12, the months 1..12; a bucket without
\* messages has count 0 and the counts add up to the number of non-system
\* messages in the range of the filter
C15_DenseBuckets ==
  LET out == calls[1].out
      msgs == qstore.messages
  IN /\ calls[1].fn = "getHourlyActivity" =>
          /\ Len(out) = 24
          /\ \A k \in 1..24 :
               /\ out[k].hour = k - 1
               /\ (\A i \in Counted : Hour(msgs[i].ts) # k - 1)
                    => out[k].messageCount = 0
          /\ SumOfCounts(out) = Cardinality(Counted)
     /\ calls[1].fn = "getWeekdayActivity" =>
          /\ Len(out) = 7
          /\ \A k \in 1..7 :
               /\ out[k].weekday = k
               /\ (\A i \in Counted : (msgs[i].ts \div 86400 + 4) % 7 # k % 7)
                    => out[k].messageCount = 0
          /\ SumOfCounts(out) = Cardinality(Counted)
     /\ calls[1].fn = "getMonthlyActivity" =>
          /\ Len(out) = 12
          /\ \A k \in 1..12 :
               /\ out[k].month = k
               /\ (\A i \in Counted : Month(msgs[i].ts) # k)
                    => out[k].messageCount = 0
          /\ SumOfCounts(out) = Cardinality(Counted)

\* getHourlyActivity on a store whose messages are all between 09:00 and
\* 10:00 returned 24 entries of which 23 have count 0
C15_Witness ==
  /\ calls[1].fn = "getHourlyActivity"
  /\ Counted # {}
  /\ \A i \in Counted : Hour(qstore.messages[i].ts) = 9
  /\ Len(calls[1].out) = 24
  /\ Cardinality({k \in 1..24 : calls[1].out[k].messageCount = 0}) = 23

-----------------------------------------------------------------------------
(* Properties of the parsers' batches and progress (SpecParse) *)

\* the messages a parser makes of the records of a file, in file order
RECURSIVE ParsedOf(_, _)
ParsedOf(fmt, recs) ==
  IF recs = <<>> THEN <<>>
  ELSE (IF fmt = "v4" THEN V4ProcessMessage(Head(recs))
        ELSE <<ChatLabMessageOf(Head(recs))>>)
       \o ParsedOf(fmt, Tail(recs))

\* the messages of the messages events among the notifications t, in order
RECURSIVE Emitted(_)
Emitted(t) ==
  IF t = <<>> THEN <<>>
  ELSE (IF Head(t).type = "messages" THEN Head(t).messages ELSE <<>>)
       \o Emitted(Tail(t))

\* C16: every messages event carries at least one and at most batchSize
\* messages, and the messages events in order carry the parsed messages in
\* file order, each once: a prefix of them during the parse, all of them
\* when it has completed
C16_BatchesCarryEachMessageOnce ==
  /\ \A i \in Positions("messages") :
       /\ Len(trace[i].messages) >= 1
       /\ Len(trace[i].messages) <= batchSize
  /\ Len(Emitted(trace)) <= Len(ParsedOf(file.fmt, file.recs))
  /\ Emitted(trace)
       = SubSeq(ParsedOf(file.fmt, file.recs), 1, Len(Emitted(trace)))
  /\ ppc = "finished" => Emitted(trace) = ParsedOf(file.fmt, file.recs)

\* a parse with batchSize 1 completed after two messages events with
\* different messages
C16_Witness ==
  /\ ppc = "finished"
  /\ batchSize = 1
  /\ Len(Emitted(trace)) = 2
  /\ Emitted(trace)[1] # Emitted(trace)[2]

\* C17: at every point of a parse the number of messages parsed but not yet
\* emitted in a messages event is at most batchSize
C17_HeldAtMostBatchSize ==
  messagesProcessed - Len(Emitted(trace)) <= batchSize

\* C18: done is emitted only if the whole input was consumed and no record
\* was skipped, and never after a stream error
C18_DoneOnlyIfNothingSkipped ==
  /\ Positions("done") # {} =>
       /\ pidx = Len(file.recs)
       /\ messagesProcessed = Len(file.recs)
  /\ ppc = "error" => Positions("done") = {}

\* C19: the bytesRead and messagesProcessed of the progress events and
\* onProgress calls of a parse, in the order they are issued, never decrease
C19_ProgressNeverDecreases ==
  \A i, j \in Positions("progress") \cup Positions("onProgress") :
    i < j => /\ trace[i].bytesRead <= trace[j].bytesRead
             /\ trace[i].messagesProcessed <= trace[j].messagesProcessed

-----------------------------------------------------------------------------
(* Properties of the system sender (SpecMeme) *)

\* C20: the messages of a sender named SystemMessageName do not affect the
\* result of an analytics function: it is the result for the store without
\* those messages
C20_SystemSenderHasNoEffect ==
  calls[1].fn # "none" =>
    calls[1].out =
      Compute(calls[1].fn,
              [qstore EXCEPT !.messages =
                 SelectSeq(@, LAMBDA r :
                                AMembers[r.senderId].name # SystemMessageName)],
              calls[1].filter, calls[1].clock)

-----------------------------------------------------------------------------
(* Properties of the order of the scans (SpecOrder) *)

\* C21: a scan in time order processes the messages by timestamp ascending
\* with the row id deciding between equal timestamps: its result is the one
\* for the rows visited in id order
C21_TiesInInsertionOrder ==
  calls[1].fn # "none" =>
    calls[1].out = Compute(calls[1].fn, [qstore EXCEPT !.first = 0],
                           calls[1].filter, calls[1].clock)

-----------------------------------------------------------------------------
(* Properties of the shape of the results (SpecFields) *)

\* C22: a function returns the same fields in every case - store missing,
\* no message, messages present - and never null: the fields are those of
\* its result on an empty store, and getTimeRange returns a range
C22_SameFieldsInEveryCase ==
  /\ calls[1].fn \in {"getRepeatAnalysis", "getMonologueAnalysis"} =>
       DOMAIN calls[1].out
         = DOMAIN Compute(calls[1].fn,
                          [state |-> "ok", messages |-> <<>>, first |-> 0],
                          NoFilter, 0)
  /\ calls[1].fn = "getTimeRange" => calls[1].out # None

-----------------------------------------------------------------------------
(* Properties of the percentages (SpecPercent) *)

\* C23: every percentage is the ratio in percent rounded to two decimals,
\* round(ratio * 10000) / 100; here in hundredths of a percent, the whole
\* percents of loyaltyRank times 100
C23_OneRoundingRule ==
  LET out == calls[1].out
  IN /\ calls[1].fn = "getMemberActivity" =>
          \A i \in 1..Len(out) :
            out[i].percentage
              = Round(out[i].messageCount * 10000,
                      Len(FilteredRows(qstore.messages, calls[1].filter)))
     /\ calls[1].fn = "getCheckInAnalysis" =>
          \A i \in 1..Len(out.loyaltyRank) :
            100 * out.loyaltyRank[i].percentage
              = Round(out.loyaltyRank[i].totalDays * 10000,
                      out.loyaltyRank[1].totalDays)

-----------------------------------------------------------------------------
(* Properties of the message handler (SpecWorker) *)

ResponsesTo(id) ==
  {i \in 1..Len(posted) : posted[i].id = id /\ posted[i].type = "response"}

ProgressOf(id) ==
  {i \in 1..Len(posted) : posted[i].id = id /\ posted[i].type = "progress"}

\* C24: for every request received, of a known or unknown type, whose
\* handler returned, threw, resolved or rejected, exactly one response with
\* the request's id was posted, none before that, and every progress
\* message of that id comes before the response
C24_OneResponseAfterProgress ==
  \A id \in 1..MaxRequests :
    /\ pending[id] = "done" => Cardinality(ResponsesTo(id)) = 1
    /\ pending[id] # "done" => ResponsesTo(id) = {}
    /\ \A i \in ProgressOf(id) : \A j \in ResponsesTo(id) : i < j

\* two requests answered: one with a handler that sent progress messages
\* and rejected, while the other request was received and answered
C24_Witness ==
  /\ \A id \in 1..MaxRequests : pending[id] = "done"
  /\ \E id \in 1..MaxRequests :
       /\ Cardinality(ProgressOf(id)) = MaxProgress
       /\ \E j \in ResponsesTo(id) : ~posted[j].success
       /\ \E o \in 1..MaxRequests :
            \E k \in ResponsesTo(o) :
              \E i \in ProgressOf(id) : i < k /\ k < SetMax(ResponsesTo(id))

-----------------------------------------------------------------------------
(* Properties of the import's rows (Spec) *)

\* the events the callbacks of streamImport have handled
Handled == IF ev = NoEv THEN trace ELSE SubSeq(trace, 1, Len(trace) - 1)

\* the platformIds seen: of the members of the members events and of the
\* senders of the messages that passed the validation
SeenPlatformIds ==
  UNION {{Handled[i].members[k].platformId : k \in 1..Len(Handled[i].members)}
           \cup {Handled[i].messages[k].senderPlatformId :
                   k \in {j \in 1..Len(Handled[i].messages) :
                            ~SkipsMessage(Handled[i].messages[j])}} :
         i \in 1..Len(Handled)}

Importing == pc \in {"parse", "history", "indexes", "checkpoint"}

\* C25: while an import runs, every message row inserted refers to a member
\* row of the store, the store has exactly one member row for each
\* platformId seen, and memberIdMap maps each seen platformId to the id of
\* that row
C25_MemberRowsAndCache ==
  Importing =>
    /\ \A i \in 1..Len(db.txn.messages) :
         db.txn.messages[i].senderId \in 1..Len(db.txn.members)
    /\ \A pid \in SeenPlatformIds :
         /\ Cardinality({i \in 1..Len(db.txn.members) :
                           db.txn.members[i].platformId = pid}) = 1
         /\ Has(imp.memberIdMap, pid)
         /\ imp.memberIdMap[pid] \in 1..Len(db.txn.members)
         /\ db.txn.members[imp.memberIdMap[pid]].platformId = pid
    /\ Len(db.txn.members) = Cardinality(SeenPlatformIds)

\* an import has inserted two messages of two senders, one of them not
\* among the members the file declares
C25_Witness ==
  /\ Importing
  /\ Len(db.txn.messages) = 2
  /\ db.txn.messages[1].senderId # db.txn.messages[2].senderId
  /\ Len(file.head) = 1
  /\ Len(db.txn.members) = 2

\* the message rows inserted since the last COMMIT
Uncommitted(s) == Len(s.db.txn.messages) - Len(s.db.disk.messages)

\* one message transaction is open and holds fewer rows than a full batch
OneOpenBatch(s) ==
  /\ s.imp.inTransaction
  /\ s.imp.messageCountInBatch = Uncommitted(s)
  /\ Uncommitted(s) < BATCH_COMMIT_SIZE

\* C26: from the first event to the final commit a message transaction is
\* open, and after every message of a batch, the one that fills
\* BATCH_COMMIT_SIZE included, fewer than BATCH_COMMIT_SIZE message rows are
\* uncommitted: the full batch was committed and a new transaction opened
\* before the next message
C26_BatchCommit ==
  pc = "parse" =>
    /\ OneOpenBatch(Cur)
    /\ ev # NoEv /\ ev.type = "messages" =>
         \A k \in 1..Len(ev.messages) :
           OneOpenBatch(OnMessageBatch(Cur, SubSeq(ev.messages, 1, k)))

\* the insert that filled a batch was committed and a new transaction is open
C26_Witness ==
  /\ pc = "parse" /\ ev = NoEv
  /\ imp.inTransaction
  /\ imp.totalMessageCount = BATCH_COMMIT_SIZE
  /\ imp.messageCountInBatch = 0
  /\ Len(db.disk.messages) = BATCH_COMMIT_SIZE

\* the member, message and history rows of a store
Rows(store) == <<store.members, store.messages, store.history>>

\* C27: the steps of an import come in this order: the store is created
\* without the indexes of createIndexes; the message transactions are all
\* committed before the nickname history is written; the history is committed
\* before createIndexes; createIndexes comes before the final checkpoint and
\* the success result; and no member, message or history row is inserted or
\* updated in a store that has those indexes
C27_StepsInOrder ==
  /\ [](/\ pc \in {"parse", "history", "indexes"} =>
             ~db.txn.indexes /\ ~db.disk.indexes
        /\ pc = "history" =>
             ~imp.inTransaction /\ db.disk.messages = db.txn.messages
        /\ pc = "indexes" => db.disk = db.txn
        /\ pc = "checkpoint" => db.disk = db.txn /\ db.disk.indexes
        /\ result = "success" =>
             pc = "returned" /\ db.disk = db.txn /\ db.disk.indexes)
  /\ [][Rows(db'.txn) # Rows(db.txn) \/ Rows(db'.disk) # Rows(db.disk) =>
          /\ ~db.txn.indexes /\ ~db'.txn.indexes
          /\ ~db.disk.indexes /\ ~db'.disk.indexes]_vars

\* an import that wrote messages and nickname history has returned success
C27_Witness ==
  /\ result = "success"
  /\ db.disk.indexes
  /\ Len(db.disk.messages) = 2
  /\ Len(db.disk.history) = 2

\* the tracked name list and the current tracked name of a platformId
TrackedNames(tracker, pid) ==
  IF \E i \in 1..Len(tracker) : tracker[i].platformId = pid
  THEN LET t == tracker[CHOOSE i \in 1..Len(tracker) : tracker[i].platformId = pid]
       IN [i \in 1..Len(t.history) |-> t.history[i].name]
  ELSE <<>>

CurrentName(tracker, pid) ==
  IF \E i \in 1..Len(tracker) : tracker[i].platformId = pid
  THEN Some(tracker[CHOOSE i \in 1..Len(tracker) : tracker[i].platformId = pid]
              .currentName)
  ELSE None

\* the three conditions on the sender name of an inserted message
AcceptsName(s, msg) ==
  LET pid == msg.senderPlatformId
      cur == CurrentName(s.imp.nicknameTracker, pid)
  IN /\ ~SkipsMessage(msg)
     /\ msg.senderName # pid
     /\ Has(s.imp.memberNicknameMap, pid) =>
          msg.senderName # s.imp.memberNicknameMap[pid]
     /\ cur # None => msg.senderName # cur[1]

\* C28: a message appends its sender name to the tracked names of its sender,
\* and makes it the current name, when the name is not the platformId, not
\* the member's original nickname and not the current tracked name; any other
\* message, and any message for the other members, leaves tracked names and
\* current name as they were
C28_NameAppendedOnlyWhenReal ==
  pc = "parse" /\ ev # NoEv /\ ev.type = "messages" =>
    \A k \in 1..Len(ev.messages) :
      LET s == OnMessageBatch(Cur, SubSeq(ev.messages, 1, k - 1))
          msg == ev.messages[k]
          s2 == OnMessage(s, msg)
      IN \A p \in Pids \cup {"", "0"} :
           LET names == TrackedNames(s.imp.nicknameTracker, p)
               names2 == TrackedNames(s2.imp.nicknameTracker, p)
               cur == CurrentName(s.imp.nicknameTracker, p)
               cur2 == CurrentName(s2.imp.nicknameTracker, p)
           IN IF p = msg.senderPlatformId /\ AcceptsName(s, msg)
              THEN names2 = Append(names, msg.senderName)
                   /\ cur2 = Some(msg.senderName)
              ELSE names2 = names /\ cur2 = cur

\* two messages of a member with a known original nickname were inserted and
\* one of their names was accepted
C28_Witness ==
  /\ pc = "parse" /\ ev = NoEv
  /\ imp.totalMessageCount = 2
  /\ imp.memberNicknameMap # EmptyMap
  /\ Len(imp.nicknameTracker) = 1
  /\ Len(imp.nicknameTracker[1].history) = 1
  /\ Has(imp.memberNicknameMap, imp.nicknameTracker[1].platformId)

\* the names of the history rows of a member, in row order
HistoryNames(store, memberId) ==
  LET rows == SelectSeq(store.history, LAMBDA h : h.memberId = memberId)
  IN [i \in 1..Len(rows) |-> rows[i].name]

\* the history rows of a member that have no end
OpenRows(store, memberId) ==
  {i \in 1..Len(store.history) :
     store.history[i].memberId = memberId /\ store.history[i].endTs = None}

HistoryWritten == pc \in {"indexes", "checkpoint"} \/ result = "success"

\* the names of a tracker were accepted in the order of their timestamps
InTimeOrder(t) ==
  \A k \in 1..(Len(t.history) - 1) :
    t.history[k].startTs <= t.history[k + 1].startTs

\* C29: once the history is written, a tracked member with more than one
\* distinct accepted name, accepted in the order of their timestamps, has its
\* accepted names as history rows, one row for each in order, and the one row
\* without an end carries the current name
C29_RowsAreTheAcceptedNames ==
  HistoryWritten =>
    \A i \in 1..Len(imp.nicknameTracker) :
      LET t == imp.nicknameTracker[i]
          names == TrackedNames(imp.nicknameTracker, t.platformId)
          id == imp.memberIdMap[t.platformId]
      IN /\ t.platformId \notin {"0", "undefined"}
         /\ InTimeOrder(t)
         /\ Cardinality({names[k] : k \in 1..Len(names)}) > 1
         =>
           /\ HistoryNames(db.txn, id) = names
           /\ \A r \in OpenRows(db.txn, id) :
                db.txn.history[r].name = t.currentName

\* a tracked member with one distinct accepted name has no history row and
\* that name in its member row
OneNameKept(t) ==
  LET names == TrackedNames(imp.nicknameTracker, t.platformId)
      id == imp.memberIdMap[t.platformId]
  IN Cardinality({names[k] : k \in 1..Len(names)}) = 1 =>
       /\ HistoryNames(db.disk, id) = <<>>
       /\ db.disk.members[id].name = names[1]

\* C30 as stated: after a successful import every tracked member with one
\* distinct accepted name has no history row and that name in its member row
C30_OneNameIsMemberName ==
  result = "success" =>
    \A i \in 1..Len(imp.nicknameTracker) : OneNameKept(imp.nicknameTracker[i])

\* C30: the same for the tracked members whose platformId is not "0" or
\* "undefined", which the materialization skips
C30_OneNameIsMemberNameOfValidId ==
  result = "success" =>
    \A i \in 1..Len(imp.nicknameTracker) :
      imp.nicknameTracker[i].platformId \notin {"0", "undefined"} =>
        OneNameKept(imp.nicknameTracker[i])

\* a declared member whose messages all carry one name, not the declared one
C30_Witness ==
  /\ result = "success"
  /\ Len(file.head) = 1 /\ file.head[1].platformId = "u1"
  /\ Len(imp.nicknameTracker) = 1
  /\ imp.nicknameTracker[1].platformId = "u1"
  /\ TrackedNames(imp.nicknameTracker, "u1") = <<"n2">>
  /\ file.head[1].name # "n2"
  /\ db.disk.members[imp.memberIdMap["u1"]].name = "n2"
  /\ db.disk.history = <<>>

\* the messages the import inserted, in the order of the file
ImportedMessages ==
  SelectSeq(SeqConcat([i \in 1..Len(Handled) |-> Handled[i].messages]),
            LAMBDA m : ~SkipsMessage(m))

\* the members of the members events, in order
DeclaredMembers == SeqConcat([i \in 1..Len(Handled) |-> Handled[i].members])

\* the display names of the messages of a platformId, in order
NamesOf(pid) ==
  LET own == SelectSeq(ImportedMessages, LAMBDA m : m.senderPlatformId = pid)
  IN [i \in 1..Len(own) |-> own[i].senderName]

\* C31: after a successful import the name of a member row is the name of
\* the member's last imported message, or the name of the members event for
\* a member without a message. Stated for the files whose records all have a
\* timestamp, and for the members whose platformId the history step does not
\* skip and whose last message carries a name other than the platformId
C31_NameIsLastDisplayName ==
  result = "success" /\ (\A k \in 1..Len(file.recs) : file.recs[k].ts # None) =>
    \A i \in 1..Len(db.disk.members) :
      LET pid == db.disk.members[i].platformId
          names == NamesOf(pid)
      IN IF names # <<>>
         THEN pid \notin {"0", "undefined"} /\ names[Len(names)] # pid =>
                db.disk.members[i].name = names[Len(names)]
         ELSE \E k \in 1..Len(DeclaredMembers) :
                /\ DeclaredMembers[k].platformId = pid
                /\ DeclaredMembers[k].name = db.disk.members[i].name

\* the count of a member in a rank list (0 when it is not listed)
RankCount(list, id) ==
  IF \E i \in 1..Len(list) : list[i].memberId = id
  THEN list[CHOOSE i \in 1..Len(list) : list[i].memberId = id].count
  ELSE 0

\* the messages of a that mention another member b, over all b, and the
\* messages of another member that mention b
MentionsBy(a) ==
  MentionsFromTo(a, 1 + (a % 3)) + MentionsFromTo(a, 1 + ((a + 1) % 3))
MentionsOf(b) ==
  MentionsFromTo(1 + (b % 3), b) + MentionsFromTo(1 + ((b + 1) % 3), b)

\* C32: a message counts once for each other member it mentions, however
\* often it names that member, and never for its own sender: a member's
\* count as mentioner is the number of pairs (message of the member, other
\* member mentioned in it), its count as mentioned the number of messages of
\* others that mention it, and totalMentions is the sum over all ordered
\* pairs of different members
C32_OncePerMessageAndTarget ==
  calls[1].fn = "getMentionAnalysis" =>
    LET out == calls[1].out
    IN /\ \A a \in 1..3 :
            /\ RankCount(out.topMentioners, a) = MentionsBy(a)
            /\ RankCount(out.topMentioned, a) = MentionsOf(a)
       /\ out.totalMentions = MentionsBy(1) + MentionsBy(2) + MentionsBy(3)

\* a message that names B twice is the only mention and counts once
C32_Witness ==
  /\ calls[1].fn = "getMentionAnalysis"
  /\ \E i \in 1..Len(qstore.messages) : qstore.messages[i].content = "@B @B"
  /\ calls[1].out.totalMentions = 1
  /\ RankCount(calls[1].out.topMentioned, 2) = 1

-----------------------------------------------------------------------------
(* SpecAdjusted: getAdjustedDate in the worker's time zone *)

\* the largest offset of a time zone, in hours east of UTC, and the last day
\* (after 1970-01-01) of the timestamps tried
MaxOffset == 14
MaxDay == 3

\* whole-hour offsets from UTC-12 to UTC+14
Offsets == (0 - 12)..MaxOffset

\* the start of every UTC hour from day 1 to day MaxDay
AdjustedTimestamps == {3600 * h : h \in 24..(24 * MaxDay + 23)}

\* Date.getHours(): the hour of the local wall clock
LocalHour(ts, offset) == ((ts + 3600 * offset) \div 3600) % 24

\* the local calendar date, as days since 1970-01-01
LocalDate(ts, offset) == (ts + 3600 * offset) \div 86400

\* Date.toISOString().split('T')[0]: the UTC calendar date, as days since
\* 1970-01-01
IsoDate(ts) == ts \div 86400

\* getAdjustedDate: setDate(getDate() - 1) moves the instant one local day
\* back (a zone of fixed offset), and the date returned is the UTC date
GetAdjustedDate(ts, offset) ==
  IF LocalHour(ts, offset) < 5 THEN IsoDate(ts - 86400) ELSE IsoDate(ts)

InitAdjusted ==
  /\ file = NoFile /\ batchSize = ImportBatchSize /\ ParserIdle /\ WorkerIdle
  /\ pc = "idle" /\ db = NoDb /\ imp = InitImp /\ tempFile = "none"
  /\ result = "none" /\ failed = {} /\ served = {} /\ doneCounts = None
  /\ qstore = NoStore /\ dbCache = FALSE /\ now = 0
  /\ calls = <<NoCall, NoCall>>
  /\ tz \in Offsets /\ CacheIdle /\ AgentIdle /\ MergeIdle

\* getNightOwlAnalysis calls getAdjustedDate(msg.ts) for a message
CallGetAdjustedDate ==
  /\ \E ts \in AdjustedTimestamps :
       calls' = <<[NoCall EXCEPT !.fn = "getAdjustedDate",
                                 !.out = [ts |-> ts,
                                          date |-> GetAdjustedDate(ts, tz)]],
                  NoCall>>
  /\ UNCHANGED <<qstore, dbCache, now>>
  /\ UNCHANGED <<pvars, ivars, wvars, xvars>>

SpecAdjusted == InitAdjusted /\ [][CallGetAdjustedDate]_vars

\* C33: getAdjustedDate returns the local date of the timestamp when the
\* local hour is 5 or later and the local date before it otherwise
C33_LocalDateFromFive ==
  calls[1].fn = "getAdjustedDate" =>
    LET ts == calls[1].out.ts
    IN calls[1].out.date =
         IF LocalHour(ts, tz) >= 5 THEN LocalDate(ts, tz)
         ELSE LocalDate(ts, tz) - 1

-----------------------------------------------------------------------------
(* SpecCheckIn: getCheckInAnalysis on a store of several days *)

\* the last day of a message in the stores of SpecCheckIn
MaxCheckInDay == 4

\* at most one row for each of two members and each day, with millisecond
\* timestamps
CheckInRows ==
  [senderId : {1, 2},
   ts : {d * SecondsPerDay * MillisPerSecond : d \in 1..MaxCheckInDay}]

\* the rows in the order of an ascending key that tells them apart
CheckInOrder(S) ==
  LET keys == SeqOfSet({r.ts + r.senderId : r \in S})
  IN [i \in 1..Len(keys) |-> CHOOSE r \in S : r.ts + r.senderId = keys[i]]

CheckInStores ==
  {[state |-> "ok", messages |-> CheckInOrder(S),
    first |-> IF S = {} THEN 0 ELSE 1] : S \in SUBSET CheckInRows}

InitCheckIn == InitScan(CheckInStores)

SpecCheckIn == InitCheckIn /\ [][QueryCheckInAnalysis]_vars

\* the days on which member id has a message inside the filter
MemberDays(id, filter) ==
  LET msgs == RowsOf(FilteredRows(qstore.messages, filter), id)
  IN {DayOf(msgs[j].ts, TRUE) : j \in 1..Len(msgs)}

\* C34: for every member, with D its days with a message: the member is
\* ranked once when D is not empty; totalDays is the size of D; maxStreak is
\* the longest run of consecutive days in D; currentStreak is the run of D
\* that ends on the last active day of the session, 0 when that day is not
\* in D; and currentStreak <= maxStreak <= totalDays
C34_StreaksOfDistinctDays ==
  \A c \in 1..2 :
    calls[c].fn = "getCheckInAnalysis" =>
      LET out == calls[c].out
          D(id) == MemberDays(id, calls[c].filter)
          lastDay == SetMax(D(1) \cup D(2))
      IN \A id \in 1..2 :
           LET streak == {i \in 1..Len(out.streakRank) :
                            out.streakRank[i].memberId = id}
               loyalty == {i \in 1..Len(out.loyaltyRank) :
                             out.loyaltyRank[i].memberId = id}
           IN IF D(id) = {} THEN streak = {} /\ loyalty = {}
              ELSE /\ Cardinality(streak) = 1 /\ Cardinality(loyalty) = 1
                   /\ \A i \in loyalty :
                        out.loyaltyRank[i].totalDays = Cardinality(D(id))
                   /\ \A i \in streak :
                        /\ out.streakRank[i].maxStreak =
                             SetMax({StreakEndingAt(D(id), d) : d \in D(id)})
                        /\ out.streakRank[i].currentStreak =
                             IF lastDay \in D(id)
                             THEN StreakEndingAt(D(id), lastDay) ELSE 0
                        /\ out.streakRank[i].currentStreak
                             <= out.streakRank[i].maxStreak
                        /\ out.streakRank[i].maxStreak <= Cardinality(D(id))

\* a member active on days 1, 2 and 4: the longest streak is 2 and is not the
\* current one
C34_Witness ==
  /\ calls[1].fn = "getCheckInAnalysis" /\ calls[1].filter = NoFilter
  /\ MemberDays(1, NoFilter) = {1, 2, 4}
  /\ \E i \in 1..Len(calls[1].out.streakRank) :
       /\ calls[1].out.streakRank[i].memberId = 1
       /\ calls[1].out.streakRank[i].maxStreak = 2
       /\ calls[1].out.streakRank[i].currentStreak = 1

-----------------------------------------------------------------------------
(* SpecBattle: getMemeBattleAnalysis on stores of several runs of images *)

\* most runs of images in a store of SpecBattle
MaxRuns == 3

\* the senders of a run of images
BattleRuns == {<<>>, <<1, 2>>, <<1, 1, 1>>, <<1, 2, 1>>, <<1, 2, 2, 1>>}

\* what stands between two runs: nothing, a text, or a message of type SYSTEM
BattleBreaks ==
  {<<>>,
   <<[senderId |-> 1, ts |-> 0, type |-> TEXT, content |-> "hi"]>>,
   <<[senderId |-> 4, ts |-> 0, type |-> SYSTEM, content |-> "hi"]>>}

\* member 1 sends images, member 2 emojis
RunRows(run) ==
  [i \in 1..Len(run) |->
     [senderId |-> run[i], ts |-> 0, content |-> "",
      type |-> IF run[i] = 2 THEN EMOJI ELSE IMAGE]]

\* the k-th message has timestamp k
BattleStores ==
  {[state |-> "ok",
    messages |->
      LET rows == SeqConcat([i \in 1..(2 * MaxRuns - 1) |->
                               IF i % 2 = 1 THEN RunRows(runs[(i + 1) \div 2])
                               ELSE breaks[i \div 2]])
      IN [k \in 1..Len(rows) |-> [rows[k] EXCEPT !.ts = k]],
    first |-> 0] :
     runs \in [1..MaxRuns -> BattleRuns],
     breaks \in [1..(MaxRuns - 1) -> BattleBreaks]}

InitBattle == InitScan(BattleStores)

SpecBattle == InitBattle /\ [][QueryMemeBattleAnalysis]_vars

\* the maximal runs of image and emoji messages of msgs, as pairs of
\* positions, that have three messages or more of two senders or more
BattlesOf(msgs) ==
  LET IsImage(i) == msgs[i].type \in {IMAGE, EMOJI}
  IN {r \in (1..Len(msgs)) \X (1..Len(msgs)) :
        /\ r[1] <= r[2]
        /\ \A i \in r[1]..r[2] : IsImage(i)
        /\ r[1] = 1 \/ ~IsImage(r[1] - 1)
        /\ r[2] = Len(msgs) \/ ~IsImage(r[2] + 1)
        /\ r[2] - r[1] + 1 >= 3
        /\ Cardinality({msgs[i].senderId : i \in r[1]..r[2]}) >= 2}

\* the result counts the runs of BattlesOf(msgs) and lists the largest of
\* them, at most TopBattlesLimit, largest first
ListsBattles(out, msgs) ==
  LET runs == BattlesOf(msgs)
      top == out.topBattles
      RunOf(b) == {r \in runs : msgs[r[1]].ts = b.startTime}
  IN /\ out.totalBattles = Cardinality(runs)
     /\ Len(top) = Min(Cardinality(runs), TopBattlesLimit)
     /\ \A i \in 1..Len(top) :
          /\ \E r \in RunOf(top[i]) :
               /\ msgs[r[2]].ts = top[i].endTime
               /\ top[i].totalImages = r[2] - r[1] + 1
               /\ \A p \in 1..Len(top[i].participants) :
                    top[i].participants[p].imageCount =
                      Cardinality({k \in r[1]..r[2] :
                        msgs[k].senderId = top[i].participants[p].memberId})
               /\ {top[i].participants[p].memberId :
                     p \in 1..Len(top[i].participants)}
                    = {msgs[k].senderId : k \in r[1]..r[2]}
               /\ Len(top[i].participants)
                    = Cardinality({msgs[k].senderId : k \in r[1]..r[2]})
          /\ i < Len(top) => top[i].totalImages >= top[i + 1].totalImages
          /\ \A j \in 1..Len(top) : j # i => top[j].startTime # top[i].startTime
          /\ \A r \in runs :
               (\A j \in 1..Len(top) : top[j].startTime # msgs[r[1]].ts)
                 => r[2] - r[1] + 1 <= top[i].totalImages

\* the messages inside the filter of a call
InFilter(c) == SelectSeq(qstore.messages, LAMBDA r : InTimeFilter(r, c.filter))

\* C35 as stated: a battle is a maximal run of image and emoji messages,
\* ended by any message of another type, with three messages or more of two
\* senders or more; totalBattles counts them; the image counts of a battle's
\* participants add up to its total; topBattles holds the largest, at most
\* TopBattlesLimit, in descending order of total
C35_BattlesAreMaximalRuns ==
  calls[1].fn = "getMemeBattleAnalysis" =>
    ListsBattles(calls[1].out, InFilter(calls[1]))

\* C35: the same, with the runs taken in the messages that are not of type
\* SYSTEM: a message of type SYSTEM does not end a run
C35_BattlesAreRunsWithoutSystem ==
  calls[1].fn = "getMemeBattleAnalysis" =>
    ListsBattles(calls[1].out,
                 SelectSeq(InFilter(calls[1]), LAMBDA r : r.type # SYSTEM))

\* three battles, two of them listed, the larger first
C35_Witness ==
  /\ calls[1].fn = "getMemeBattleAnalysis" /\ calls[1].filter = NoFilter
  /\ calls[1].out.totalBattles = 3
  /\ Len(calls[1].out.topBattles) = TopBattlesLimit
  /\ calls[1].out.topBattles[1].totalImages = 4
  /\ calls[1].out.topBattles[2].totalImages = 3

-----------------------------------------------------------------------------
(* dbCore's connection cache, per session id *)

\* most Database objects constructed in one run
MaxConnections == 3

\* what a store file in the database directory can be: absent, a database
\* with the years of its messages, or a file that is not a database
StoreFiles ==
  {[state |-> "missing", years |-> <<>>],
   [state |-> "ok", years |-> <<>>],
   [state |-> "ok", years |-> <<2024>>],
   [state |-> "corrupt", years |-> <<>>]}

\* new Database(dbPath, { readonly: true }): the object reads the file it opened
NewDatabase(conns, s) ==
  Append(conns, [sessionId |-> s, readonly |-> TRUE, open |-> TRUE,
                 years |-> sessionFiles[s].years])

\* variant: close() that leaves the connection open
DbClose_StaysOpen(conns, d) == conns

\* db.close()
DbClose(conns, d) == [conns EXCEPT ![d].open = FALSE]

\* dbCache.has(sessionId)
CacheHas(c, s) == \E i \in 1..Len(c) : c[i].sessionId = s

\* dbCache.get(sessionId): the connection, 0 for undefined
CacheGet(c, s) ==
  IF CacheHas(c, s) THEN c[CHOOSE i \in 1..Len(c) : c[i].sessionId = s].db ELSE 0

\* dbCache.set(sessionId, db): a Map keeps the place of a key it already has
CacheSet(c, s, d) ==
  IF CacheHas(c, s)
    THEN [i \in 1..Len(c) |-> IF c[i].sessionId = s
                                THEN [sessionId |-> s, db |-> d] ELSE c[i]]
    ELSE Append(c, [sessionId |-> s, db |-> d])

\* dbCache.delete(sessionId)
CacheDelete(c, s) == SelectSeq(c, LAMBDA e : e.sessionId # s)

\* the record of a call: its arguments, the cache and the number of
\* Database objects before it, and what it returned
CacheCall(fn, s, out) ==
  [fn |-> fn, sessionId |-> s, cacheBefore |-> connCache,
   connsBefore |-> Len(connections), out |-> out]

\* openDatabase(sessionId): the cached connection; null without a store file;
\* otherwise a new read-only connection, cached once the pragma has run.  On a
\* file that is not a database either the constructor or the pragma throws.
OpenDatabaseOf(s) ==
  IF CacheHas(connCache, s)
    THEN /\ lastCall' = CacheCall("openDatabase", s, CacheGet(connCache, s))
         /\ UNCHANGED <<connections, connCache>>
    ELSE IF sessionFiles[s].state = "missing"
    THEN /\ lastCall' = CacheCall("openDatabase", s, 0)
         /\ UNCHANGED <<connections, connCache>>
    ELSE /\ Len(connections) < MaxConnections
         /\ IF sessionFiles[s].state = "corrupt"
              THEN /\ \E constructed \in BOOLEAN :
                        connections' = IF constructed
                                         THEN NewDatabase(connections, s)
                                         ELSE connections
                   /\ lastCall' = CacheCall("openDatabase", s, 0 - 1)
                   /\ UNCHANGED connCache
              ELSE /\ connections' = NewDatabase(connections, s)
                   /\ connCache' = CacheSet(connCache, s, Len(connections) + 1)
                   /\ lastCall' = CacheCall("openDatabase", s, Len(connections) + 1)

\* closeDatabase(sessionId)
CloseDatabaseOf(s) ==
  LET d == CacheGet(connCache, s)
  IN /\ IF d # 0
          THEN /\ connections' = DbClose(connections, d)
               /\ connCache' = CacheDelete(connCache, s)
          ELSE UNCHANGED <<connections, connCache>>
     /\ lastCall' = CacheCall("closeDatabase", s, 0)

\* closeAllDatabases(): the loop over dbCache.entries(), deleting as it goes
RECURSIVE CloseEntries(_, _)
CloseEntries(conns, entries) ==
  IF entries = <<>> THEN conns
  ELSE CloseEntries(DbClose(conns, Head(entries).db), Tail(entries))

CloseAllDatabases ==
  /\ connections' = CloseEntries(connections, connCache)
  /\ connCache' = <<>>
  /\ lastCall' = CacheCall("closeAllDatabases", "", 0)

CallOpenDatabase ==
  /\ \E s \in Sessions : OpenDatabaseOf(s)
  /\ UNCHANGED <<tz, sessionFiles, dvars, avars, mvars>>
  /\ UNCHANGED <<pvars, ivars, qvars, wvars>>

CallCloseDatabase ==
  /\ \E s \in Sessions : CloseDatabaseOf(s)
  /\ UNCHANGED <<tz, sessionFiles, dvars, avars, mvars>>
  /\ UNCHANGED <<pvars, ivars, qvars, wvars>>

CallCloseAllDatabases ==
  /\ CloseAllDatabases
  /\ UNCHANGED <<tz, sessionFiles, dvars, avars, mvars>>
  /\ UNCHANGED <<pvars, ivars, qvars, wvars>>

InitCache ==
  /\ file = NoFile /\ batchSize = ImportBatchSize /\ ParserIdle /\ WorkerIdle
  /\ pc = "idle" /\ db = NoDb /\ imp = InitImp /\ tempFile = "none"
  /\ result = "none" /\ failed = {} /\ served = {} /\ doneCounts = None
  /\ qstore = NoStore /\ dbCache = FALSE /\ now = 0
  /\ calls = <<NoCall, NoCall>>
  /\ tz = 0
  /\ sessionFiles \in [Sessions -> StoreFiles]
  /\ connections = <<>> /\ connCache = <<>> /\ lastCall = [fn |-> "none"]
  /\ inbox = <<>> /\ deletePc = [pc |-> "idle", sessionId |-> ""]
  /\ answer = [sessionId |-> ""]
  /\ AgentIdle /\ MergeIdle

NextCache == CallOpenDatabase \/ CallCloseDatabase \/ CallCloseAllDatabases

SpecCache == InitCache /\ [][NextCache]_vars

\* the connections the cache holds
CachedDbs(c) == {c[i].db : i \in 1..Len(c)}

\* C36: under any sequence of openDatabase, closeDatabase and
\* closeAllDatabases calls the cache holds at most one connection per session
\* id, every cached connection is an open read-only connection of its
\* session, openDatabase constructs a connection only when the cache has
\* none for the session and returns the cached one otherwise, and after
\* closeDatabase(s) (closeAllDatabases) no entry for s (no entry) remains and
\* the connections removed are closed.
C36_CacheOfOpenReadOnlyConnections ==
  /\ \A i, j \in 1..Len(connCache) :
       connCache[i].sessionId = connCache[j].sessionId => i = j
  /\ \A i \in 1..Len(connCache) :
       /\ connCache[i].db \in 1..Len(connections)
       /\ connections[connCache[i].db].open
       /\ connections[connCache[i].db].readonly
       /\ connections[connCache[i].db].sessionId = connCache[i].sessionId
  /\ lastCall.fn = "openDatabase" =>
       IF CacheHas(lastCall.cacheBefore, lastCall.sessionId)
         THEN /\ Len(connections) = lastCall.connsBefore
              /\ lastCall.out = CacheGet(lastCall.cacheBefore, lastCall.sessionId)
              /\ connCache = lastCall.cacheBefore
         ELSE /\ Len(connections) <= lastCall.connsBefore + 1
              /\ lastCall.out > 0 =>
                   /\ lastCall.out = Len(connections)
                   /\ CacheGet(connCache, lastCall.sessionId) = lastCall.out
  /\ lastCall.fn = "closeDatabase" =>
       /\ ~CacheHas(connCache, lastCall.sessionId)
       /\ connCache = CacheDelete(lastCall.cacheBefore, lastCall.sessionId)
       /\ \A d \in CachedDbs(lastCall.cacheBefore) \ CachedDbs(connCache) :
            ~connections[d].open
  /\ lastCall.fn = "closeAllDatabases" =>
       /\ connCache = <<>>
       /\ \A d \in CachedDbs(lastCall.cacheBefore) : ~connections[d].open

\* a second openDatabase has returned the cached connection, and a
\* closeDatabase has closed and removed one while another session stays cached
C36_Witness ==
  /\ lastCall.fn = "closeDatabase"
  /\ CacheHas(lastCall.cacheBefore, lastCall.sessionId)
  /\ Len(lastCall.cacheBefore) = 2
  /\ Len(connCache) = 1
  /\ Len(connections) = MaxConnections

-----------------------------------------------------------------------------
(* chat:deleteSession against the analytics requests of the same session *)

\* most requests waiting in the worker's queue
MaxInbox == 2

\* an analytics handler of the main process posts its request to the worker;
\* getAvailableYears stands for the analytics queries, which all start with
\* openDatabase(sessionId) and return their empty result without a database
RequestAnalytics ==
  /\ Len(inbox) < MaxInbox
  /\ \E s \in Sessions :
       inbox' = Append(inbox, [type |-> "getAvailableYears", sessionId |-> s,
                               afterDelete |-> /\ deletePc.pc = "deleted"
                                               /\ deletePc.sessionId = s])
  /\ UNCHANGED <<tz, cvars, deletePc, answer, avars, mvars>>
  /\ UNCHANGED <<pvars, ivars, qvars, wvars>>

\* chat:deleteSession: await worker.closeDatabase(sessionId) posts the
\* request and suspends the handler until the worker has answered
RequestDeleteSession ==
  /\ deletePc.pc = "idle"
  /\ Len(inbox) < MaxInbox
  /\ \E s \in Sessions :
       /\ inbox' = Append(inbox, [type |-> "closeDatabase", sessionId |-> s,
                                  afterDelete |-> FALSE])
       /\ deletePc' = [pc |-> "closing", sessionId |-> s]
  /\ UNCHANGED <<tz, cvars, answer, avars, mvars>>
  /\ UNCHANGED <<pvars, ivars, qvars, wvars>>

\* what getAvailableYears returns for what openDatabase returned: [] for
\* null, the error when it threw, else the years of the file the connection reads
GetAvailableYears(conns, d) ==
  IF d = 0 THEN [threw |-> FALSE, years |-> <<>>]
  ELSE IF d < 0 THEN [threw |-> TRUE, years |-> <<>>]
  ELSE [threw |-> FALSE, years |-> conns[d].years]

\* the worker's message handler takes the oldest request and runs its
\* synchronous handler to the end; the answer to closeDatabase resumes the
\* delete handler of the main process
WorkerHandles ==
  /\ inbox # <<>>
  /\ LET message == Head(inbox)
     IN /\ inbox' = Tail(inbox)
        /\ IF message.type = "closeDatabase"
             THEN /\ CloseDatabaseOf(message.sessionId)
                  /\ deletePc' = [deletePc EXCEPT !.pc = "closed"]
                  /\ UNCHANGED answer
             ELSE /\ OpenDatabaseOf(message.sessionId)
                  /\ answer' = [sessionId |-> message.sessionId,
                                afterDelete |-> message.afterDelete,
                                result |-> GetAvailableYears(connections', lastCall'.out)]
                  /\ UNCHANGED deletePc
  /\ UNCHANGED <<tz, sessionFiles, avars, mvars>>
  /\ UNCHANGED <<pvars, ivars, qvars, wvars>>

\* the session has an open connection to its store file
HasOpenConnection(s) ==
  \E d \in 1..Len(connections) : connections[d].sessionId = s /\ connections[d].open

\* databaseCore.deleteSession(sessionId), called once closeDatabase has been
\* answered: deletes the store file and returns true; false without a file.
\* Removing a file that a connection holds open succeeds or fails with the
\* platform's file system.
DeleteSessionFile ==
  /\ deletePc.pc = "closed"
  /\ LET s == deletePc.sessionId
     IN \E removed \in IF sessionFiles[s].state = "missing" THEN {FALSE}
                       ELSE IF HasOpenConnection(s) THEN BOOLEAN ELSE {TRUE} :
          /\ sessionFiles' = IF removed
                               THEN [sessionFiles EXCEPT ![s] =
                                       [state |-> "missing", years |-> <<>>]]
                               ELSE sessionFiles
          /\ deletePc' = [deletePc EXCEPT !.pc = IF removed THEN "deleted" ELSE "failed"]
  /\ UNCHANGED <<tz, connections, connCache, lastCall, inbox, answer, avars, mvars>>
  /\ UNCHANGED <<pvars, ivars, qvars, wvars>>

InitDelete == InitCache

NextDelete ==
  RequestAnalytics \/ RequestDeleteSession \/ WorkerHandles \/ DeleteSessionFile

SpecDelete == InitDelete /\ [][NextDelete]_vars

\* C37: once chat:deleteSession for a session has returned true, the cache
\* holds no connection for the session and an analytics request made for it
\* afterwards is answered with the empty result, whatever analytics requests
\* the worker handled while the delete was running.
C37_DeletedSessionIsGone ==
  deletePc.pc = "deleted" =>
    /\ ~CacheHas(connCache, deletePc.sessionId)
    /\ (answer.sessionId = deletePc.sessionId /\ answer.afterDelete) =>
         answer.result = [threw |-> FALSE, years |-> <<>>]

-----------------------------------------------------------------------------
(* Agent.executeStream: the tool loop *)

\* largest config.maxToolRounds
MaxToolRounds == 2

\* most LLM requests of one run
MaxLlmRequests == 5

\* what one chatStream call delivers, as far as the loop looks at it: whether
\* a chunk with isFinished arrives before the stream ends, its finishReason,
\* the number of tool_calls it carries (0: the field is absent; the service
\* attaches the list only when it is not empty) and the <tool_call> tags of
\* the accumulated content ("parsed": parseToolCallTags finds a call)
LlmStreams ==
  {st \in [finished : BOOLEAN, finishReason : {"stop", "tool_calls"},
           toolCalls : 0..1, tags : {"none", "parsed", "unparsed"}] :
     ~st.finished => (st.toolCalls = 0 /\ st.finishReason = "stop")}

\* the finished chunk ends executeStream: no standard tool calls and no
\* <tool_call> tag that parses
ReturnsOnFinish(st) ==
  /\ st.finished
  /\ st.finishReason # "tool_calls" \/ st.toolCalls = 0
  /\ st.tags # "parsed"

\* toolCalls after the for-await loop: those of the chunk, or those of
\* the fallback parse made at the finished chunk
ToolCallsAfter(st) ==
  IF st.finished /\ (st.finishReason # "tool_calls" \/ st.toolCalls = 0)
       /\ st.tags = "parsed"
    THEN 1
    ELSE st.toolCalls

\* one pass of the while loop once its stream has ended without a return:
\* handleToolCalls and this.toolRounds++ only if there are tool calls
AfterStream(a, st) ==
  [a EXCEPT !.requests = @ + 1, !.stream = <<st>>,
            !.toolRounds = IF ToolCallsAfter(st) > 0 THEN @ + 1 ELSE @]

\* new Agent(context, config).executeStream(userMessage, onChunk), up to the loop
ExecuteStream ==
  /\ agent.pc = "idle"
  /\ \E max \in 0..MaxToolRounds :
       agent' = [pc |-> "loop", maxToolRounds |-> max, toolRounds |-> 0,
                 requests |-> 0, stream |-> <<>>]
  /\ UNCHANGED <<tz, cvars, dvars, mvars>>
  /\ UNCHANGED <<pvars, ivars, qvars, wvars>>

\* one pass of while (this.toolRounds < this.config.maxToolRounds)
ToolLoopPass ==
  /\ agent.pc = "loop"
  /\ agent.toolRounds < agent.maxToolRounds
  /\ agent.requests < MaxLlmRequests
  /\ \E st \in LlmStreams :
       agent' = IF ReturnsOnFinish(st)
                  THEN [agent EXCEPT !.requests = @ + 1, !.stream = <<st>>,
                                     !.pc = "returned"]
                  ELSE AfterStream(agent, st)
  /\ UNCHANGED <<tz, cvars, dvars, mvars>>
  /\ UNCHANGED <<pvars, ivars, qvars, wvars>>

\* the loop is left: the last request, without tools, and the return
FinalRequest ==
  /\ agent.pc = "loop"
  /\ agent.toolRounds >= agent.maxToolRounds
  /\ agent' = [agent EXCEPT !.requests = @ + 1, !.pc = "returned"]
  /\ UNCHANGED <<tz, cvars, dvars, mvars>>
  /\ UNCHANGED <<pvars, ivars, qvars, wvars>>

InitAgent == Init

NextAgent == ExecuteStream \/ ToolLoopPass \/ FinalRequest

SpecAgent == InitAgent /\ [][NextAgent]_vars

\* C38: whatever the LLM streams deliver, executeStream makes at most
\* maxToolRounds + 1 LLM requests (at most maxToolRounds passes through its
\* tool loop, then the final request).
C38_AtMostMaxToolRoundsPasses ==
  agent.requests <= agent.maxToolRounds + 1

-----------------------------------------------------------------------------
(* The temp databases of the merge preview *)

\* most temp databases generated in one run
MaxTempDbs == 3

\* clearTempDbCache(filePath): [cache, files] afterwards
ClearTempDbCache(cache, files, f) ==
  IF cache[f] # 0
    THEN [cache |-> [cache EXCEPT ![f] = 0], files |-> files \ {cache[f]}]
    ELSE [cache |-> cache, files |-> files]

\* clearTempDbCache for each file of a list
RECURSIVE ClearEach(_, _, _)
ClearEach(cache, files, list) ==
  IF list = <<>> THEN [cache |-> cache, files |-> files]
  ELSE LET c == ClearTempDbCache(cache, files, Head(list))
       IN ClearEach(c.cache, c.files, Tail(list))

\* clearAllTempDbCache()
ClearAllTempDbCache(cache, files) ==
  [cache |-> [f \in MergeSources |-> 0],
   files |-> files \ {cache[f] : f \in MergeSources}]

\* merge:parseFileInfo: streamParseFileInfo writes a temp database under a
\* newly generated path (time and random suffix); a failed parse deletes it
\* and throws, a successful one returns the path, which the handler caches
ParseFileInfo ==
  /\ tempDbCount < MaxTempDbs
  /\ \E f \in MergeSources, parsed \in BOOLEAN :
       LET tempDbPath == tempDbCount + 1
       IN /\ tempDbCount' = tempDbPath
          /\ tempDbFiles' = IF parsed THEN tempDbFiles \cup {tempDbPath} ELSE tempDbFiles
          /\ tempDbCache' = IF parsed THEN [tempDbCache EXCEPT ![f] = tempDbPath]
                                      ELSE tempDbCache
          /\ mergeReply' = [handler |-> "merge:parseFileInfo", filePaths |-> <<f>>,
                            ok |-> parsed]
  /\ UNCHANGED <<tz, cvars, dvars, avars>>
  /\ UNCHANGED <<pvars, ivars, qvars, wvars>>

\* merge:mergeFiles: once mergeFilesWithTempDb has succeeded the cache of
\* each merged file is cleared
MergeFiles ==
  /\ \E filePaths \in {<<"a.json">>, <<"b.json">>, <<"a.json", "b.json">>},
        success \in BOOLEAN :
       /\ success => \A i \in 1..Len(filePaths) : tempDbCache[filePaths[i]] # 0
       /\ LET c == IF success THEN ClearEach(tempDbCache, tempDbFiles, filePaths)
                   ELSE [cache |-> tempDbCache, files |-> tempDbFiles]
          IN /\ tempDbCache' = c.cache
             /\ tempDbFiles' = c.files
             /\ mergeReply' = [handler |-> "merge:mergeFiles", filePaths |-> filePaths,
                               ok |-> success]
  /\ UNCHANGED <<tz, cvars, dvars, avars, tempDbCount>>
  /\ UNCHANGED <<pvars, ivars, qvars, wvars>>

\* merge:clearCache with a file path, or without one
ClearCache ==
  /\ \E filePath \in {<<f>> : f \in MergeSources} \cup {<<>>} :
       LET c == IF filePath # <<>>
                  THEN ClearTempDbCache(tempDbCache, tempDbFiles, filePath[1])
                  ELSE ClearAllTempDbCache(tempDbCache, tempDbFiles)
       IN /\ tempDbCache' = c.cache
          /\ tempDbFiles' = c.files
          /\ mergeReply' = [handler |-> "merge:clearCache", filePaths |-> filePath,
                            ok |-> TRUE]
  /\ UNCHANGED <<tz, cvars, dvars, avars, tempDbCount>>
  /\ UNCHANGED <<pvars, ivars, qvars, wvars>>

InitMerge == Init

NextMerge == ParseFileInfo \/ MergeFiles \/ ClearCache

SpecMerge == InitMerge /\ [][NextMerge]_vars

\* C39: under any sequence of merge:parseFileInfo, merge:mergeFiles and
\* merge:clearCache requests every temp database that exists is the cache
\* entry of a source file: none is left without an entry pointing to it.
C39_EveryTempDbIsCached ==
  \A tempDbPath \in tempDbFiles :
    \E f \in MergeSources : tempDbCache[f] = tempDbPath

-----------------------------------------------------------------------------
(* getLaughAnalysis *)

\* longest message text, in characters
MaxContent == 2

\* the keyword the code treats specially ("哈哈"), with "h" for its character
Haha == <<"h", "h">>

\* keywordToPattern: the keyword taken literally; "哈哈" allows its last
\* character to repeat ("哈哈+")
KeywordToPattern(keyword) == [chars |-> keyword, plus |-> keyword = Haha]

\* the length of the match of a pattern that starts at position i of the
\* content, -1 without one; the repetition is greedy
MatchAt(pattern, content, i) ==
  LET n == Len(pattern.chars)
      more == {m \in 0..Len(content) :
                 /\ i + n - 1 + m <= Len(content)
                 /\ \A k \in 1..m : content[i + n - 1 + k] = pattern.chars[n]}
  IN IF /\ i + n - 1 <= Len(content)
        /\ \A k \in 1..n : content[i + k - 1] = pattern.chars[k]
       THEN IF pattern.plus THEN n + SetMax(more) ELSE n
       ELSE 0 - 1

\* the group of new RegExp(`(${patterns.join('|')})`) at position i: the
\* first alternative that matches; without patterns the group is "()", which
\* matches the empty string at every position
GroupAt(patterns, content, i) ==
  IF patterns = <<>> THEN 0
  ELSE LET hits == {k \in 1..Len(patterns) : MatchAt(patterns[k], content, i) >= 0}
       IN IF hits = {} THEN 0 - 1
          ELSE MatchAt(patterns[SetMin(hits)], content, i)

\* msg.content.match(laughRegex) with the g flag, from position i: the
\* matches from left to right; after an empty match the search moves on by
\* one character
RECURSIVE Matches(_, _, _)
Matches(patterns, content, i) ==
  IF i > Len(content) + 1 THEN <<>>
  ELSE LET n == GroupAt(patterns, content, i)
       IN IF n < 0 THEN Matches(patterns, content, i + 1)
          ELSE <<SubSeq(content, i, i + n - 1)>>
                 \o Matches(patterns, content, IF n = 0 THEN i + 1 ELSE i + n)

\* the type of a match: the first keyword whose pattern matches all of it,
\* <<>> for "其他"
MatchedType(laughKeywords, match) ==
  LET fits == {k \in 1..Len(laughKeywords) :
                 MatchAt(KeywordToPattern(laughKeywords[k]), match, 1) = Len(match)}
  IN IF fits = {} THEN <<>> ELSE laughKeywords[SetMin(fits)]

\* the loop over the messages: memberStats (in insertion order), typeCount
\* and totalLaughs
RECURSIVE LaughScan(_, _, _, _)
LaughScan(st, messages, patterns, laughKeywords) ==
  IF messages = <<>> THEN st
  ELSE LET msg == Head(messages)
           matches == Matches(patterns, msg.content, 1)
           known == \E i \in 1..Len(st.memberStats) :
                      st.memberStats[i].memberId = msg.senderId
           stats0 == IF known THEN st.memberStats
                     ELSE Append(st.memberStats,
                                 [memberId |-> msg.senderId, laughCount |-> 0,
                                  messageCount |-> 0])
           stats1 == [i \in 1..Len(stats0) |->
                        IF stats0[i].memberId = msg.senderId
                          THEN [stats0[i] EXCEPT !.messageCount = @ + 1,
                                                  !.laughCount = @ + Len(matches)]
                          ELSE stats0[i]]
           RECURSIVE Types(_, _)
           Types(tc, ms) ==
             IF ms = <<>> THEN tc
             ELSE Types(MapInc(tc, MatchedType(laughKeywords, Head(ms))), Tail(ms))
       IN LaughScan([memberStats |-> stats1,
                     typeCount |-> Types(st.typeCount, matches),
                     totalLaughs |-> st.totalLaughs + Len(matches)],
                    Tail(messages), patterns, laughKeywords)

\* emptyResult of getLaughAnalysis
EmptyLaughResult ==
  [rankByRate |-> <<>>, rankByCount |-> <<>>, typeDistribution |-> <<>>,
   totalLaughs |-> 0, totalMessages |-> 0, groupLaughRate |-> 0]

\* getLaughAnalysis with the database open; keywords is None when the
\* argument is absent; rates and percentages are in hundredths of a percent
GetLaughAnalysis(rows, filter, keywords) ==
  LET laughKeywords == IF keywords # None /\ Len(keywords[1]) > 0
                         THEN keywords[1] ELSE <<>>
      patterns == [k \in 1..Len(laughKeywords) |-> KeywordToPattern(laughKeywords[k])]
      messages == SelectSeq(ScanRows(rows, filter), LAMBDA r : r.type = TEXT)
      Item(s, total) ==
        [memberId |-> s.memberId, laughCount |-> s.laughCount,
         messageCount |-> s.messageCount,
         laughRate |-> Round(10000 * s.laughCount, s.messageCount),
         percentage |-> Round(10000 * s.laughCount, total)]
      Result(st) ==
        IF st.totalLaughs = 0 THEN EmptyLaughResult
        ELSE LET laughing == SelectSeq(st.memberStats, LAMBDA s : s.laughCount > 0)
             IN [rankByRate |->
                   SortedBy([i \in 1..Len(laughing) |->
                     [key |-> 0 - Item(laughing[i], st.totalLaughs).laughRate,
                      val |-> Item(laughing[i], st.totalLaughs)]]),
                 rankByCount |->
                   SortedBy([i \in 1..Len(laughing) |->
                     [key |-> 0 - laughing[i].laughCount,
                      val |-> Item(laughing[i], st.totalLaughs)]]),
                 typeDistribution |->
                   SortedBy([i \in 1..Len(st.typeCount) |->
                     [key |-> 0 - st.typeCount[i].count,
                      val |-> [type |-> st.typeCount[i].key,
                               count |-> st.typeCount[i].count,
                               percentage |-> Round(10000 * st.typeCount[i].count,
                                                    st.totalLaughs)]]]),
                 totalLaughs |-> st.totalLaughs,
                 totalMessages |-> Len(messages),
                 groupLaughRate |-> Round(10000 * st.totalLaughs, Len(messages))]
  IN IF messages = <<>> THEN EmptyLaughResult
     ELSE The({Result(st) :
                 st \in {LaughScan([memberStats |-> <<>>, typeCount |-> <<>>,
                                    totalLaughs |-> 0],
                                   messages, patterns, laughKeywords)}})

\* the keyword lists of the requests: absent, empty, or keywords
LaughKeywords ==
  {None, Some(<<>>), Some(<<Haha>>), Some(<<<<"x">>>>), Some(<<<<"x">>, Haha>>)}

\* message texts of up to MaxContent characters
Contents == UNION {[1..n -> {"h", "x"}] : n \in 0..MaxContent}

\* stores of one or two text messages
LaughStores ==
  {[state |-> "ok", messages |-> ms, first |-> 1] :
     ms \in {<<[senderId |-> 1, ts |-> 1, type |-> TEXT, content |-> c]>> :
               c \in Contents}
          \cup {<<[senderId |-> 1, ts |-> 1, type |-> TEXT, content |-> c],
                  [senderId |-> id, ts |-> 2, type |-> type, content |-> d]>> :
                  c \in Contents, d \in Contents, id \in {1, 2},
                  type \in {TEXT, IMAGE}}}
     \cup {[state |-> "ok", messages |-> <<>>, first |-> 0],
           [state |-> "missing", messages |-> <<>>, first |-> 0]}

\* a getLaughAnalysis request served by the worker
QueryLaughAnalysis ==
  /\ qstore.state # "none"
  /\ \E keywords \in LaughKeywords :
       LET conn == OpenDatabase
       IN calls' = <<[fn |-> "getLaughAnalysis", filter |-> NoFilter, clock |-> now,
                      threw |-> conn = "throws",
                      out |-> [keywords |-> keywords,
                               result |-> IF conn = "db"
                                            THEN GetLaughAnalysis(qstore.messages,
                                                                  NoFilter, keywords)
                                            ELSE EmptyLaughResult]],
                     NoCall>>
  /\ dbCache' = (dbCache \/ qstore.state = "ok")
  /\ UNCHANGED <<qstore, now>>
  /\ UNCHANGED <<pvars, ivars, wvars, xvars>>

InitLaugh == InitScan(LaughStores)

SpecLaugh == InitLaugh /\ [][QueryLaughAnalysis]_vars

\* C40: a getLaughAnalysis call with no keyword list or an empty one counts
\* no match: totalLaughs is 0 and no member has a laugh count.
C40_NoKeywordsNoLaughs ==
  (calls[1].fn = "getLaughAnalysis"
     /\ calls[1].out.keywords \in {None, Some(<<>>)}) =>
    /\ calls[1].out.result.totalLaughs = 0
    /\ calls[1].out.result.rankByCount = <<>>

====
